---- MODULE Spec2Model ----
(***************************************************************************)
(* Model of the line-oriented tool executor AgentToolSet                   *)
(* (src/src/coder/agent_toolset.cpp): the sandbox guard, the file helpers  *)
(* and the editing operations, over an explicit filesystem tree.           *)
(*                                                                         *)
(* Text is a sequence of one-character strings; "\n" is the newline.  A    *)
(* path is a sequence of components, each component a sequence of          *)
(* characters, so that the string form of a path can be compared           *)
(* character by character as std::string::find does.  The tree holds no    *)
(* symbolic links, so weakly_canonical is the lexical normal form of the   *)
(* absolute path.                                                          *)
(***************************************************************************)
EXTENDS Integers, Sequences, FiniteSets, TLC

VARIABLES
    working_dir_,   \* AgentToolSet::working_dir_, an absolute canonical path
    fs,             \* the filesystem: absolute path -> node
    result,         \* the ToolResult the last call returned
    threw,          \* TRUE when the last call left by an exception instead
    call,           \* the last call: operation and arguments
    pre,            \* the filesystem as it was when the last call began
    edits,          \* calls so far that changed the filesystem
    state_,         \* RecursiveAgent::state_
    step_count_,    \* RecursiveAgent::step_count_
    history_,       \* RecursiveAgent::history_
    current_task_,  \* RecursiveAgent::current_task_
    final_summary_, \* RecursiveAgent::final_summary_
    interrupt_flag, \* the std::atomic<bool> the caller hands to Run and Step
    pc,             \* where the controller is: idle, or inside Run or Step
    model_output,   \* the text the last inference returned
    returned,       \* what the last operation of the controller returned
    entry,          \* the controller as it was when that operation began
    notices,        \* the callbacks that operation has made, in order
    infers,         \* the inferences that operation has started
    dispatches,     \* the commands that operation has handed to Execute
    is_loaded,      \* RecursiveAgent::model_: whether the model is loaded
    at_flag         \* infers and dispatches as they were when the flag was
                    \* set in the course of a Run

toolVars == <<working_dir_, fs, result, threw, call, pre, edits>>

agentVars ==
    <<state_, step_count_, history_, current_task_, final_summary_,
      interrupt_flag, pc, model_output, returned, entry, notices, infers,
      dispatches, is_loaded, at_flag>>

vars == <<toolVars, agentVars>>

(***************************************************************************)
(* Limits of AgentToolSet (agent_toolset.hpp).                             *)
(***************************************************************************)
MAX_READ_LINES == 50

MAX_WRITE_LINES == 200

MAX_GREP_RESULTS == 20

MAX_LIST_ENTRIES == 100

(***************************************************************************)
(* Bound of the model: in a behaviour at most MaxEdits calls change the    *)
(* filesystem; calls that leave it as it was are not limited.              *)
(***************************************************************************)
MaxEdits == 1

Min(a, b) == IF a < b THEN a ELSE b

\* Bind(x, F) is F(x), written so that x is evaluated once however often
\* F uses it.
Bind(x, F(_)) == CHOOSE r \in { F(v) : v \in {x} } : TRUE

Max(a, b) == IF a > b THEN a ELSE b

NL == "\n"

(***************************************************************************)
(* Paths.                                                                  *)
(***************************************************************************)
DOT == <<".">>

DOTDOT == <<".", ".">>

nW == <<"w">>

nP == <<"p">>

nP2 == <<"p", "2">>

nE == <<"e">>

nF == <<"f">>

nS == <<"s">>

nG == <<"g">>

nX == <<"x">>

nH == <<"h">>

\* A path argument as the caller gives it: absolute or relative, not normalised.
RelPath(comps) == [abs |-> FALSE, comps |-> comps]

AbsPath(comps) == [abs |-> TRUE, comps |-> comps]

EmptyPath == RelPath(<<>>)

\* std::filesystem::path::string() of an absolute path.
RECURSIVE PathString(_)
PathString(p) ==
    IF p = <<>> THEN <<>>
    ELSE <<"/">> \o Head(p) \o PathString(Tail(p))

\* std::string::find(prefix) == 0
StartsWith(str, prefix) ==
    /\ Len(prefix) <= Len(str)
    /\ SubSeq(str, 1, Len(prefix)) = prefix

\* The component-wise relation the sandbox is meant to enforce:
\* target is root or a descendant of root.
IsWithin(root, target) ==
    /\ Len(root) <= Len(target)
    /\ SubSeq(target, 1, Len(root)) = root

\* std::filesystem::weakly_canonical of an absolute path in a tree without
\* symbolic links: "." dropped, ".." removes the component before it.
RECURSIVE LexicallyNormal(_, _)
LexicallyNormal(comps, acc) ==
    IF comps = <<>> THEN acc
    ELSE LET c == Head(comps) IN
         IF c = DOT THEN LexicallyNormal(Tail(comps), acc)
         ELSE IF c = DOTDOT
              THEN LexicallyNormal(Tail(comps),
                       IF acc = <<>> THEN <<>> ELSE SubSeq(acc, 1, Len(acc) - 1))
              ELSE LexicallyNormal(Tail(comps), Append(acc, c))

weakly_canonical(comps) == LexicallyNormal(comps, <<>>)

ResolvePath(wd, relative) ==
    IF relative.abs
    THEN weakly_canonical(relative.comps)
    ELSE weakly_canonical(wd \o relative.comps)

IsPathSafe(wd, resolved) ==
    LET base_str == PathString(weakly_canonical(wd))
        target_str == PathString(weakly_canonical(resolved))
    IN StartsWith(target_str, base_str)

parent_path(p) == IF p = <<>> THEN <<>> ELSE SubSeq(p, 1, Len(p) - 1)

\* The text of a path argument, as it is copied into a message.
PathText(path) ==
    IF path.abs \/ path.comps = <<>> THEN PathString(path.comps)
    ELSE Tail(PathString(path.comps))

(***************************************************************************)
(* The filesystem tree.                                                    *)
(***************************************************************************)
WorkRoot == <<nW, nP>>

Universe ==
    { <<>>, <<nW>>, WorkRoot,
      <<nW, nP, nF>>, <<nW, nP, nF, nX>>, <<nW, nP, nH>>,
      <<nW, nP, nS>>, <<nW, nP, nS, nG>>,
      <<nW, nP2>>, <<nW, nP2, nF>>,
      <<nE>>, <<nE, nF>> }

NoNode == [kind |-> "none", bytes |-> <<>>]

DirNode == [kind |-> "dir", bytes |-> <<>>]

FileNode(bytes) == [kind |-> "file", bytes |-> bytes]

\* The path ends in a separator: its last component is empty.
TrailingSeparator(p) == p # <<>> /\ p[Len(p)] = <<>>

\* std::filesystem::exists; a path that ends in a separator names what is
\* before the separator, and only when that is a directory.
exists(fsys, p) ==
    IF TrailingSeparator(p) THEN fsys[parent_path(p)].kind = "dir"
    ELSE fsys[p].kind # "none"

is_directory(fsys, p) ==
    IF TrailingSeparator(p) THEN fsys[parent_path(p)].kind = "dir"
    ELSE fsys[p].kind = "dir"

file_size(fsys, p) == Len(fsys[p].bytes)

\* std::filesystem::create_directories: every missing ancestor is made a
\* directory, shortest first; a non-directory on the way is an exception.
RECURSIVE create_directories(_, _, _)
create_directories(fsys, p, n) ==
    IF n > Len(p) THEN [fs |-> fsys, threw |-> FALSE]
    ELSE LET q == SubSeq(p, 1, n) IN
         IF fsys[q].kind = "file" THEN [fs |-> fsys, threw |-> TRUE]
         ELSE create_directories([fsys EXCEPT ![q] = DirNode], p, n + 1)

\* std::ofstream file(path): opens (creating or truncating) unless the
\* parent is not a directory, the path names a directory or it ends in a
\* separator.
ofstream_opens(fsys, p) ==
    /\ p # <<>>
    /\ ~TrailingSeparator(p)
    /\ is_directory(fsys, parent_path(p))
    /\ ~is_directory(fsys, p)

(***************************************************************************)
(* File helpers.                                                           *)
(***************************************************************************)
\* The pieces of a text between its newlines, computed by halves (the text
\* lo..hi of bytes): always at least one piece, the last one the text after
\* the last newline.
RECURSIVE Pieces(_, _, _)
Pieces(bytes, lo, hi) ==
    IF lo > hi THEN << <<>> >>
    ELSE IF lo = hi
         THEN (IF bytes[lo] = NL THEN << <<>>, <<>> >> ELSE << <<bytes[lo]>> >>)
         ELSE LET mid == (lo + hi) \div 2
                  l == Pieces(bytes, lo, mid)
                  r == Pieces(bytes, mid + 1, hi)
              IN SubSeq(l, 1, Len(l) - 1) \o << l[Len(l)] \o r[1] >>
                     \o SubSeq(r, 2, Len(r))

\* The std::getline loop: text up to each newline is a line; text after the
\* last newline is a line only when it is not empty.
GetLines(bytes) ==
    LET ps == Pieces(bytes, 1, Len(bytes))
    IN IF ps[Len(ps)] = <<>> THEN SubSeq(ps, 1, Len(ps) - 1) ELSE ps

ReadFileLines(fsys, path) ==
    IF fsys[path].kind # "file" THEN <<>>
    ELSE GetLines(fsys[path].bytes)

\* The bytes WriteFileLines streams out for lines lo..hi of a line list,
\* computed by halves: a newline between consecutive lines and one after
\* the last, that is, one after every line.
RECURSIVE EmitLines(_, _, _)
EmitLines(lines, lo, hi) ==
    IF lo > hi THEN <<>>
    ELSE IF lo = hi THEN lines[lo] \o <<NL>>
    ELSE LET mid == (lo + hi) \div 2
         IN EmitLines(lines, lo, mid) \o EmitLines(lines, mid + 1, hi)

\* WriteFileLines without lines 85-88: no newline after the last line.
FileBytesNoFinalNewline(lines) ==
    LET b == EmitLines(lines, 1, Len(lines))
    IN SubSeq(b, 1, Len(b) - 1)

FileBytes(lines) == EmitLines(lines, 1, Len(lines))

WriteFileLines(fsys, path, lines) ==
    LET parent == parent_path(path)
        made == IF parent # <<>> /\ ~exists(fsys, parent)
                THEN create_directories(fsys, parent, 1)
                ELSE [fs |-> fsys, threw |-> FALSE]
    IN IF made.threw THEN [ok |-> FALSE, fs |-> made.fs, threw |-> TRUE]
       ELSE IF ~ofstream_opens(made.fs, path)
            THEN [ok |-> FALSE, fs |-> made.fs, threw |-> FALSE]
            ELSE [ok |-> TRUE,
                  fs |-> [made.fs EXCEPT ![path] = FileNode(FileBytes(lines))],
                  threw |-> FALSE]

(***************************************************************************)
(* ToolResult.                                                             *)
(***************************************************************************)
NoError == [msg |-> "", nums |-> <<>>, path |-> EmptyPath]

Error(msg, nums, path) == [msg |-> msg, nums |-> nums, path |-> path]

\* A default-constructed ToolResult.
ToolResult ==
    [success |-> FALSE, output |-> <<>>, error |-> NoError,
     lines_returned |-> 0, truncated |-> FALSE, finished |-> FALSE]

\* One line of output text (each ends with a newline): a tag for the fixed
\* words, the numbers printed in it and the file text copied into it.
OutLine(tag, nums, text) == [tag |-> tag, nums |-> nums, text |-> text]

\* What a call leaves behind: its ToolResult, the filesystem, and whether it
\* left by an exception.
Returned(res, fsys) == [res |-> res, fs |-> fsys, threw |-> FALSE]

\* A failure that also reports success.
FailedYetSuccessful(err, fsys) ==
    Returned([ToolResult EXCEPT !.error = err, !.success = TRUE], fsys)

Failed(err, fsys) == Returned([ToolResult EXCEPT !.error = err], fsys)

Thrown(fsys) == [res |-> ToolResult, fs |-> fsys, threw |-> TRUE]

PathOutside == Error("Path outside working directory.", <<>>, EmptyPath)

(***************************************************************************)
(* ReadLines.                                                              *)
(***************************************************************************)
\* The cap compared with >= in place of >: a request of exactly the
\* maximum is refused.
TooManyRequestedInclusive(requested) == requested >= MAX_READ_LINES

TooManyRequested(requested) == requested > MAX_READ_LINES

\* ReadRange printing the 0-based index plus two: every line is shown under
\* the number of the line after it.
ReadRangeMisnumbered(lines, start_line, end_line) ==
    LET actual_start == Min(start_line, Len(lines) + 1)
        actual_end == Min(end_line, Len(lines))
        numbered == [k \in 1..Max(0, actual_end - actual_start + 1) |->
                        OutLine("line", <<actual_start + k>>,
                                lines[actual_start + k - 1])]
        eof == IF actual_end < end_line
               THEN <<OutLine("[EOF at line N]", <<Len(lines)>>, <<>>)>>
               ELSE <<>>
    IN [output |-> numbered \o eof, lines_returned |-> Len(numbered)]

\* ReadRange testing actual_end <= end_line: the EOF marker is appended to
\* every read.
ReadRangeEofAlways(lines, start_line, end_line) ==
    LET actual_start == Min(start_line, Len(lines) + 1)
        actual_end == Min(end_line, Len(lines))
        numbered == [k \in 1..Max(0, actual_end - actual_start + 1) |->
                        OutLine("line", <<actual_start + k - 1>>,
                                lines[actual_start + k - 1])]
        eof == IF actual_end <= end_line
               THEN <<OutLine("[EOF at line N]", <<Len(lines)>>, <<>>)>>
               ELSE <<>>
    IN [output |-> numbered \o eof, lines_returned |-> Len(numbered)]

\* Lines 175-187: the numbered lines of the range and the EOF marker.
ReadRange(lines, start_line, end_line) ==
    LET actual_start == Min(start_line, Len(lines) + 1)
        actual_end == Min(end_line, Len(lines))
        numbered == [k \in 1..Max(0, actual_end - actual_start + 1) |->
                        OutLine("line", <<actual_start + k - 1>>,
                                lines[actual_start + k - 1])]
        eof == IF actual_end < end_line
               THEN <<OutLine("[EOF at line N]", <<Len(lines)>>, <<>>)>>
               ELSE <<>>
    IN [output |-> numbered \o eof, lines_returned |-> Len(numbered)]

ReadLines(fsys, wd, path, start_line, end_line) ==
    IF start_line < 1 \/ end_line < start_line
    THEN Failed(Error("Invalid line range. Use 1-indexed positive integers.",
                      <<>>, EmptyPath), fsys)
    ELSE LET requested == end_line - start_line + 1 IN
    IF TooManyRequested(requested)
    THEN Failed(Error("Too many lines requested (N). Maximum is M. Narrow your request.",
                      <<requested, MAX_READ_LINES>>, EmptyPath), fsys)
    ELSE LET resolved == ResolvePath(wd, path) IN
    IF ~IsPathSafe(wd, resolved) THEN Failed(PathOutside, fsys)
    ELSE IF ~exists(fsys, resolved)
    THEN Failed(Error("File not found: ", <<>>, path), fsys)
    ELSE LET lines == ReadFileLines(fsys, resolved) IN
    IF lines = <<>> /\ is_directory(fsys, resolved)
    THEN Thrown(fsys)                       \* file_size of a directory throws
    ELSE IF lines = <<>> /\ file_size(fsys, resolved) > 0
    THEN Failed(Error("Failed to read file.", <<>>, EmptyPath), fsys)
    ELSE LET r == ReadRange(lines, start_line, end_line) IN
         Returned([ToolResult EXCEPT !.success = TRUE,
                                     !.output = r.output,
                                     !.lines_returned = r.lines_returned], fsys)

(***************************************************************************)
(* WriteLines, InsertLines, DeleteLines, CreateFile.                       *)
(***************************************************************************)
\* The std::getline loop over an istringstream of the content argument.
ContentLines(new_content) == GetLines(new_content)

\* The cap test with >= in place of >: a block of exactly MAX_WRITE_LINES
\* lines is refused.
TooManyToWriteInclusive(new_lines) == Len(new_lines) >= MAX_WRITE_LINES

TooManyToWrite(new_lines) == Len(new_lines) > MAX_WRITE_LINES

\* WriteSplice resuming at idx_end in place of idx_end + 1: the last line of
\* the replaced range is kept.
WriteSpliceKeepsLast(lines, new_lines, start_line, end_line) ==
    LET idx_start == start_line - 1
        idx_end == Min(end_line - 1, Len(lines) - 1)
        before == SubSeq(lines, 1, Min(idx_start, Len(lines)))
        padding == [k \in 1..Max(0, idx_start - Len(before)) |-> <<>>]
        after == SubSeq(lines, Max(1, idx_end + 1), Len(lines))
    IN before \o padding \o new_lines \o after

\* Lines 400-425: lines before the range, padding, the new lines, lines
\* after the clamped end.
WriteSplice(lines, new_lines, start_line, end_line) ==
    LET idx_start == start_line - 1
        idx_end == Min(end_line - 1, Len(lines) - 1)
        before == SubSeq(lines, 1, Min(idx_start, Len(lines)))
        padding == [k \in 1..Max(0, idx_start - Len(before)) |-> <<>>]
        after == SubSeq(lines, idx_end + 2, Len(lines))
    IN before \o padding \o new_lines \o after

WriteLines(fsys, wd, path, start_line, end_line, new_content) ==
    IF start_line < 1 \/ end_line < start_line
    THEN Failed(Error("Invalid line range.", <<>>, EmptyPath), fsys)
    ELSE LET resolved == ResolvePath(wd, path) IN
    IF ~IsPathSafe(wd, resolved) THEN Failed(PathOutside, fsys)
    ELSE IF ~exists(fsys, resolved)
    THEN Failed(Error("File not found. Use CREATE first for new files.",
                      <<>>, EmptyPath), fsys)
    ELSE LET lines == ReadFileLines(fsys, resolved)
             new_lines == ContentLines(new_content) IN
    IF TooManyToWrite(new_lines)
    THEN Failed(Error("Too many lines to write (N). Maximum is M.",
                      <<Len(new_lines), MAX_WRITE_LINES>>, EmptyPath), fsys)
    ELSE LET result_lines == WriteSplice(lines, new_lines, start_line, end_line)
             w == WriteFileLines(fsys, resolved, result_lines) IN
    IF w.threw THEN Thrown(w.fs)
    ELSE IF ~w.ok
    THEN Failed(Error("Failed to write file.", <<>>, EmptyPath), w.fs)
    ELSE Returned([ToolResult EXCEPT
             !.success = TRUE,
             !.output = <<OutLine("Replaced lines S-E with K new lines.",
                                  <<start_line, end_line, Len(new_lines)>>, <<>>),
                          OutLine("File now has N lines.",
                                  <<Len(result_lines)>>, <<>>)>>], w.fs)

\* InsertSplice taking after_line for the 1-based position to insert at:
\* the new lines land one line early.
InsertSpliceBefore(lines, new_lines, after_line) ==
    LET insert_pos == Max(0, Min(after_line, Len(lines)) - 1)
    IN SubSeq(lines, 1, insert_pos) \o new_lines
           \o SubSeq(lines, insert_pos + 1, Len(lines))

\* Lines 476-478: the new lines go in after the clamped line number.
InsertSplice(lines, new_lines, after_line) ==
    LET insert_pos == Min(after_line, Len(lines))
    IN SubSeq(lines, 1, insert_pos) \o new_lines
           \o SubSeq(lines, insert_pos + 1, Len(lines))

InsertLines(fsys, wd, path, after_line, new_content) ==
    IF after_line < 0
    THEN Failed(Error("Invalid line number. Use 0 to insert at beginning.",
                      <<>>, EmptyPath), fsys)
    ELSE LET resolved == ResolvePath(wd, path) IN
    IF ~IsPathSafe(wd, resolved) THEN Failed(PathOutside, fsys)
    ELSE IF ~exists(fsys, resolved)
    THEN Failed(Error("File not found. Use CREATE first for new files.",
                      <<>>, EmptyPath), fsys)
    ELSE LET lines == ReadFileLines(fsys, resolved)
             new_lines == ContentLines(new_content) IN
    IF TooManyToWrite(new_lines)
    THEN Failed(Error("Too many lines to insert.", <<>>, EmptyPath), fsys)
    ELSE LET result_lines == InsertSplice(lines, new_lines, after_line)
             w == WriteFileLines(fsys, resolved, result_lines) IN
    IF w.threw THEN Thrown(w.fs)
    ELSE IF ~w.ok
    THEN Failed(Error("Failed to write file.", <<>>, EmptyPath), w.fs)
    ELSE Returned([ToolResult EXCEPT
             !.success = TRUE,
             !.output = <<OutLine("Inserted K lines after line A.",
                                  <<Len(new_lines), after_line>>, <<>>),
                          OutLine("File now has N lines.",
                                  <<Len(result_lines)>>, <<>>)>>], w.fs)

\* Line 517: the guard against a start past the last line.
StartBeyondEnd(lines, idx_start) == idx_start >= Len(lines)

\* DeleteSplice erasing [idx_start, idx_end): the last line of the span
\* survives.
DeleteSpliceExclusive(lines, start_line, end_line) ==
    LET idx_start == start_line - 1
        idx_end == Min(end_line - 1, Len(lines) - 1)
    IN SubSeq(lines, 1, idx_start)
           \o SubSeq(lines, Max(1, idx_end + 1), Len(lines))

\* Lines 515-523: the inclusive span is erased, the end clamped.
DeleteSplice(lines, start_line, end_line) ==
    LET idx_start == start_line - 1
        idx_end == Min(end_line - 1, Len(lines) - 1)
    IN SubSeq(lines, 1, idx_start) \o SubSeq(lines, idx_end + 2, Len(lines))

DeleteLines(fsys, wd, path, start_line, end_line) ==
    IF start_line < 1 \/ end_line < start_line
    THEN Failed(Error("Invalid line range.", <<>>, EmptyPath), fsys)
    ELSE LET resolved == ResolvePath(wd, path) IN
    IF ~IsPathSafe(wd, resolved) THEN Failed(PathOutside, fsys)
    ELSE IF ~exists(fsys, resolved)
    THEN Failed(Error("File not found.", <<>>, EmptyPath), fsys)
    ELSE LET lines == ReadFileLines(fsys, resolved)
             idx_start == start_line - 1
             idx_end == Min(end_line - 1, Len(lines) - 1) IN
    IF StartBeyondEnd(lines, idx_start)
    THEN Failed(Error("Start line beyond end of file.", <<>>, EmptyPath), fsys)
    ELSE LET deleted == idx_end - idx_start + 1
             result_lines == DeleteSplice(lines, start_line, end_line)
             w == WriteFileLines(fsys, resolved, result_lines) IN
    IF w.threw THEN Thrown(w.fs)
    ELSE IF ~w.ok
    THEN Failed(Error("Failed to write file.", <<>>, EmptyPath), w.fs)
    ELSE Returned([ToolResult EXCEPT
             !.success = TRUE,
             !.output = <<OutLine("Deleted K lines.", <<deleted>>, <<>>),
                          OutLine("File now has N lines.",
                                  <<Len(result_lines)>>, <<>>)>>], w.fs)

\* CreateFile without its check for an existing path.
AlreadyExistsUnchecked(fsys, resolved) == FALSE

\* Line 546: an existing path is refused.
AlreadyExists(fsys, resolved) == exists(fsys, resolved)

CreateFile(fsys, wd, path) ==
    LET resolved == ResolvePath(wd, path) IN
    IF ~IsPathSafe(wd, resolved) THEN Failed(PathOutside, fsys)
    ELSE IF AlreadyExists(fsys, resolved)
    THEN Failed(Error("File already exists. Use WRITE to modify.",
                      <<>>, EmptyPath), fsys)
    ELSE LET parent == parent_path(resolved)
             made == IF parent # <<>> /\ ~exists(fsys, parent)
                     THEN create_directories(fsys, parent, 1)
                     ELSE [fs |-> fsys, threw |-> FALSE] IN
    IF made.threw THEN Thrown(made.fs)
    ELSE IF ~ofstream_opens(made.fs, resolved)
    THEN Failed(Error("Failed to create file.", <<>>, EmptyPath), made.fs)
    ELSE Returned([ToolResult EXCEPT
             !.success = TRUE,
             !.output = <<OutLine("Created empty file: ", <<>>,
                                  PathText(path))>>],
             [made.fs EXCEPT ![resolved] = FileNode(<<>>)])

(***************************************************************************)
(* Grep, ListDir, FileInfo, Finish.                                        *)
(***************************************************************************)
\* std::filesystem::directory_iterator(dir): the entries of a directory.
directory_entries(fsys, dir) ==
    { p \in DOMAIN fsys : p # <<>> /\ parent_path(p) = dir /\ exists(fsys, p) }

\* Two orders in which a directory_iterator may hand out the entries of a
\* directory (the standard leaves the order unspecified): the paths of the
\* tree as listed, and the same list backwards.
TreeOrder ==
    << <<>>, <<nW>>, WorkRoot,
       <<nW, nP, nF>>, <<nW, nP, nF, nX>>, <<nW, nP, nH>>,
       <<nW, nP, nS>>, <<nW, nP, nS, nG>>,
       <<nW, nP2>>, <<nW, nP2, nF>>,
       <<nE>>, <<nE, nF>> >>

Reverse(seq) == [i \in 1..Len(seq) |-> seq[Len(seq) + 1 - i]]

IterationOrders == { TreeOrder, Reverse(TreeOrder) }

\* std::filesystem::relative(file, base) of two normalised absolute paths:
\* one ".." for every component of base past the common prefix, then the
\* rest of file.
RECURSIVE CommonPrefixLen(_, _)
CommonPrefixLen(a, b) ==
    IF a = <<>> \/ b = <<>> \/ Head(a) # Head(b) THEN 0
    ELSE 1 + CommonPrefixLen(Tail(a), Tail(b))

relative(file, base) ==
    LET k == CommonPrefixLen(file, base)
    IN RelPath([i \in 1..(Len(base) - k) |-> DOTDOT]
                   \o SubSeq(file, k + 1, Len(file)))

Lowercase ==
    << "a", "b", "c", "d", "e", "f", "g", "h", "i", "j", "k", "l", "m",
       "n", "o", "p", "q", "r", "s", "t", "u", "v", "w", "x", "y", "z" >>

Uppercase ==
    << "A", "B", "C", "D", "E", "F", "G", "H", "I", "J", "K", "L", "M",
       "N", "O", "P", "Q", "R", "S", "T", "U", "V", "W", "X", "Y", "Z" >>

Digits == << "0", "1", "2", "3", "4", "5", "6", "7", "8", "9" >>

\* std::tolower and ::toupper.
ToLower(c) ==
    IF \E i \in 1..26 : Uppercase[i] = c
    THEN Lowercase[CHOOSE i \in 1..26 : Uppercase[i] = c]
    ELSE c

ToUpper(c) ==
    IF \E i \in 1..26 : Lowercase[i] = c
    THEN Uppercase[CHOOSE i \in 1..26 : Lowercase[i] = c]
    ELSE c

FoldCase(str) == [i \in 1..Len(str) |-> ToLower(str[i])]

CountOf(c, str) == Cardinality({ i \in 1..Len(str) : str[i] = c })

\* The patterns of the model are words of letters and "(": the std::regex
\* constructor throws regex_error on an unclosed group.
regex_error(pattern) == CountOf("(", pattern) # CountOf(")", pattern)

\* std::regex_search with a pattern of letters: the pattern occurs in the
\* line, letter case ignored; the empty pattern occurs in every line.
regex_search(line, pattern) ==
    \E i \in 1..(Len(line) - Len(pattern) + 1) :
        FoldCase(SubSeq(line, i, i + Len(pattern) - 1)) = FoldCase(pattern)

\* One line of Grep output: "rel_path:number: text".
GrepLine(tag, path, nums, text) ==
    [tag |-> tag, nums |-> nums, text |-> text, path |-> path]

\* The 1-based numbers of the matching lines of a file, in file order.
MatchingLines(lines, pattern) ==
    SelectSeq([i \in 1..Len(lines) |-> i],
              LAMBDA i : regex_search(lines[i], pattern))

\* The loop over files_to_search from file k on: acc holds the output so
\* far, match_count and truncated.
RECURSIVE SearchFiles(_, _, _, _, _, _)
SearchFiles(fsys, wd, pattern, files, k, acc) ==
    IF k > Len(files) THEN acc
    ELSE LET lines == ReadFileLines(fsys, files[k])
             rel_path == relative(files[k], wd)
             hits == MatchingLines(lines, pattern)
             room == MAX_GREP_RESULTS - acc.match_count
             taken == SubSeq(hits, 1, Min(Len(hits), room))
             out == acc.out \o
                    [j \in 1..Len(taken) |->
                        GrepLine("match", rel_path, <<taken[j]>>,
                                 lines[taken[j]])]
             match_count == acc.match_count + Len(taken)
         IN IF match_count >= MAX_GREP_RESULTS
            THEN [out |-> out, match_count |-> match_count, truncated |-> TRUE]
            ELSE SearchFiles(fsys, wd, pattern, files, k + 1,
                     [out |-> out, match_count |-> match_count,
                      truncated |-> FALSE])

\* Every regular file below a directory, at any depth.
RegularFilesBelow(fsys, dir) ==
    { p \in DOMAIN fsys :
        Len(p) > Len(dir) /\ IsWithin(dir, p) /\ fsys[p].kind = "file" }

\* The regular files among the entries of a directory.
RegularFilesIn(fsys, dir) ==
    { p \in directory_entries(fsys, dir) : fsys[p].kind = "file" }

\* Grep; order lists the paths of the tree in the order in which a
\* directory_iterator hands out those of them that are in one directory.
Grep(fsys, wd, pattern, path, order) ==
    LET resolved == ResolvePath(wd, path) IN
    IF ~IsPathSafe(wd, resolved) THEN Failed(PathOutside, fsys)
    ELSE IF ~is_directory(fsys, resolved) /\ ~exists(fsys, resolved)
    THEN Failed(Error("Path not found: ", <<>>, path), fsys)
    ELSE IF regex_error(pattern)
    THEN Failed(Error("Invalid regex pattern: ", <<>>, EmptyPath), fsys)
    ELSE LET files_to_search ==
                 IF is_directory(fsys, resolved)
                 THEN SelectSeq(order,
                          LAMBDA q : q \in RegularFilesIn(fsys, resolved))
                 ELSE <<resolved>>
             found == SearchFiles(fsys, wd, pattern, files_to_search, 1,
                          [out |-> <<>>, match_count |-> 0,
                           truncated |-> FALSE])
             tail == IF found.match_count = 0
                     THEN << GrepLine("No matches found for pattern: ",
                                      EmptyPath, <<>>, pattern) >>
                     ELSE IF found.truncated
                     THEN << GrepLine("[Results truncated at N matches]",
                                      EmptyPath, <<MAX_GREP_RESULTS>>, <<>>) >>
                     ELSE <<>>
         IN Returned([ToolResult EXCEPT
                          !.success = TRUE,
                          !.output = found.out \o tail,
                          !.lines_returned = found.match_count,
                          !.truncated = found.truncated], fsys)

\* The characters of the model's alphabet, in ASCII order.
Ascii ==
    << "\t", NL, "\r", " ", "\"", "(", ")", "-", ".", "/" >> \o Digits
        \o << ":" >> \o Uppercase \o << "_" >> \o Lowercase

CharCode(c) == CHOOSE i \in 1..Len(Ascii) : Ascii[i] = c

\* operator< of std::string.
RECURSIVE StringLess(_, _)
StringLess(a, b) ==
    IF b = <<>> THEN FALSE
    ELSE IF a = <<>> THEN TRUE
    ELSE IF Head(a) # Head(b) THEN CharCode(Head(a)) < CharCode(Head(b))
    ELSE StringLess(Tail(a), Tail(b))

\* std::sort of a set of distinct strings: each string at the place that
\* the number of strings before it gives.
Sorted(S) ==
    Bind([a \in S |-> Cardinality({ b \in S : StringLess(b, a) })],
         LAMBDA before :
            [k \in 1..Cardinality(S) |-> CHOOSE a \in S : before[a] = k - 1])

\* The name ListDir shows for an entry: the last component, with "/" after
\* a directory.
Decorated(name, is_dir) == IF is_dir THEN name \o <<"/">> ELSE name

EntryName(fsys, p) == Decorated(p[Len(p)], is_directory(fsys, p))

\* The listing cut off already at MAX_LIST_ENTRIES entries.
ListTruncatedInclusive(n) == n >= MAX_LIST_ENTRIES

\* Whether the loop over n entries meets one at count >= MAX_LIST_ENTRIES.
ListTruncated(n) == n > MAX_LIST_ENTRIES

\* ListDir from the names of the directory on (lines 290-314).
Listing(names) ==
    Bind(Sorted(names), LAMBDA entries :
    LET count == Min(Len(entries), MAX_LIST_ENTRIES)
        shown == [k \in 1..count |-> OutLine("entry", <<>>, entries[k])]
        more == IF ListTruncated(Len(entries))
                THEN << OutLine("[... N more entries]",
                                <<Len(entries) - count>>, <<>>) >>
                ELSE <<>>
        none == IF entries = <<>>
                THEN << OutLine("[Empty directory]", <<>>, <<>>) >>
                ELSE <<>>
    IN [ToolResult EXCEPT
           !.success = TRUE,
           !.output = shown \o more \o none,
           !.lines_returned = count,
           !.truncated = ListTruncated(Len(entries))])

ListDir(fsys, wd, path) ==
    LET resolved == ResolvePath(wd, path) IN
    IF ~IsPathSafe(wd, resolved) THEN Failed(PathOutside, fsys)
    ELSE IF ~exists(fsys, resolved)
    THEN Failed(Error("Directory not found: ", <<>>, path), fsys)
    ELSE IF ~is_directory(fsys, resolved)
    THEN Failed(Error("Not a directory: ", <<>>, path), fsys)
    ELSE Returned(Listing({ EntryName(fsys, p) :
                               p \in directory_entries(fsys, resolved) }),
                  fsys)

\* FileInfo answering a missing path with the "File not found" failure of
\* the other operations.
MissingInfoFails(fsys, path) ==
    Failed(Error("File not found: ", <<>>, path), fsys)

\* FileInfo of a path that does not exist (lines 328-334).
MissingInfo(fsys, path) ==
    Returned([ToolResult EXCEPT
                 !.success = TRUE,
                 !.output = << OutLine("exists: false", <<>>, <<>>),
                               OutLine("path: ", <<>>, PathText(path)) >>],
             fsys)

FileInfo(fsys, wd, path) ==
    LET resolved == ResolvePath(wd, path) IN
    IF ~IsPathSafe(wd, resolved) THEN Failed(PathOutside, fsys)
    ELSE IF ~exists(fsys, resolved) THEN MissingInfo(fsys, path)
    ELSE LET head == << OutLine("exists: true", <<>>, <<>>),
                        OutLine("path: ", <<>>, PathText(path)) >>
             body ==
                 IF is_directory(fsys, resolved)
                 THEN << OutLine("type: directory", <<>>, <<>>),
                         OutLine("entries: N",
                             <<Cardinality(directory_entries(fsys, resolved))>>,
                             <<>>) >>
                 ELSE << OutLine("type: file", <<>>, <<>>),
                         OutLine("size_bytes: N",
                                 <<file_size(fsys, resolved)>>, <<>>),
                         OutLine("line_count: N",
                                 <<Len(ReadFileLines(fsys, resolved))>>,
                                 <<>>) >>
         IN Returned([ToolResult EXCEPT !.success = TRUE,
                                        !.output = head \o body], fsys)

\* Text copied into the output as it is, with no newline added.
RawText(text) == [tag |-> "", nums |-> <<>>, text |-> text]

Finish(fsys, summary) ==
    Returned([ToolResult EXCEPT !.success = TRUE,
                                !.finished = TRUE,
                                !.output = << RawText(summary) >>], fsys)

(***************************************************************************)
(* Execute: the text of a command, taken apart and dispatched.             *)
(***************************************************************************)
READ_LINES == << "R", "E", "A", "D", "_", "L", "I", "N", "E", "S" >>

GREP == << "G", "R", "E", "P" >>

LIST == << "L", "I", "S", "T" >>

FILE_INFO == << "F", "I", "L", "E", "_", "I", "N", "F", "O" >>

CREATE == << "C", "R", "E", "A", "T", "E" >>

DELETE_LINES ==
    << "D", "E", "L", "E", "T", "E", "_", "L", "I", "N", "E", "S" >>

WRITE == << "W", "R", "I", "T", "E" >>

INSERT == << "I", "N", "S", "E", "R", "T" >>

FINISH == << "F", "I", "N", "I", "S", "H" >>

END_WRITE == << "E", "N", "D", "_", "W", "R", "I", "T", "E" >>

END_INSERT == << "E", "N", "D", "_", "I", "N", "S", "E", "R", "T" >>

\* The characters std::isspace accepts, which are those of the " \t\n\r"
\* trim sets.
Whitespace == { " ", "\t", NL, "\r" }

\* The least member of a set of positions, or the fallback when it is empty.
LeastOr(positions, fallback) ==
    Bind(positions, LAMBDA ps :
        IF ps = {} THEN fallback
        ELSE CHOOSE i \in ps : \A j \in ps : i <= j)

\* The first position from `from` on whose character is in the set, or is
\* not in it; one past the end when there is none. Positions count from 1.
FirstOf(str, set, from) ==
    Bind(str, LAMBDA s :
        LeastOr({ i \in from..Len(s) : s[i] \in set }, Len(s) + 1))

FirstNotOf(str, set, from) ==
    Bind(str, LAMBDA s :
        LeastOr({ i \in from..Len(s) : s[i] \notin set }, Len(s) + 1))

\* std::string::find(word, from): the first position at or after `from`
\* where word begins, 0 for npos.
find(str, word, from) ==
    Bind(str, LAMBDA s :
        LeastOr({ i \in from..(Len(s) - Len(word) + 1) :
                    SubSeq(s, i, i + Len(word) - 1) = word }, 0))

\* std::string::find_last_not_of(set), 0 for npos.
find_last_not_of(str, set) ==
    Bind(str, LAMBDA s :
        Len(s) + 1 - LeastOr({ Len(s) + 1 - i : i \in { j \in 1..Len(s) :
                                                       s[j] \notin set } },
                             Len(s) + 1))

\* The trailing trim of LIST, FILE_INFO and CREATE: a text of nothing but
\* whitespace is left as it is.
TrimTrailing(str) ==
    Bind(str, LAMBDA s :
    Bind(find_last_not_of(s, Whitespace), LAMBDA end :
        IF end # 0 THEN SubSeq(s, 1, end) ELSE s))

\* ExtractQuotedOrWord: the next word or quoted text from pos on, and the
\* position after it.
ExtractQuotedOrWord(input, pos) ==
    Bind(FirstNotOf(input, Whitespace, pos), LAMBDA p1 :
        IF p1 > Len(input) THEN [word |-> <<>>, pos |-> p1]
        ELSE IF input[p1] = "\""
        THEN Bind(FirstOf(input, { "\"" }, p1 + 1), LAMBDA q :
                 [word |-> SubSeq(input, p1 + 1, q - 1),
                  pos |-> IF q <= Len(input) THEN q + 1 ELSE q])
        ELSE Bind(FirstOf(input, Whitespace, p1), LAMBDA q :
                 [word |-> SubSeq(input, p1, q - 1), pos |-> q]))

DigitSet == { Digits[i] : i \in 1..10 }

DigitValue(c) == (CHOOSE i \in 1..10 : Digits[i] = c) - 1

RECURSIVE DecimalValue(_)
DecimalValue(digits) ==
    IF digits = <<>> THEN 0
    ELSE 10 * DecimalValue(SubSeq(digits, 1, Len(digits) - 1))
             + DigitValue(digits[Len(digits)])

\* The digits of INT_MAX and of -INT_MIN.
IntMaxDigits == << "2", "1", "4", "7", "4", "8", "3", "6", "4", "7" >>

IntMinDigits == << "2", "1", "4", "7", "4", "8", "3", "6", "4", "8" >>

\* The value of a run of digits without leading zeros, under a sign; it
\* does not fit an int when it is longer than the limit or as long and
\* greater.
SignedValue(significant, negative) ==
    LET limit == IF negative THEN IntMinDigits ELSE IntMaxDigits
        out_of_range ==
            \/ Len(significant) > Len(limit)
            \/ Len(significant) = Len(limit) /\ StringLess(limit, significant)
    IN IF out_of_range THEN [ok |-> FALSE, value |-> 0]
       ELSE IF significant = IntMinDigits
       THEN [ok |-> TRUE, value |-> 0 - 2147483647 - 1]
       ELSE [ok |-> TRUE,
             value |-> IF negative THEN 0 - DecimalValue(significant)
                       ELSE DecimalValue(significant)]

\* std::stoi: leading whitespace, an optional sign, then digits; what
\* follows the digits is ignored. It throws when there is no digit or the
\* value does not fit an int.
stoi(str) ==
    Bind(str, LAMBDA s :
    Bind(FirstNotOf(s, Whitespace, 1), LAMBDA i0 :
    Bind(i0 <= Len(s) /\ s[i0] \in { "-", "+" }, LAMBDA signed :
    Bind(IF signed THEN i0 + 1 ELSE i0, LAMBDA i1 :
    Bind(FirstNotOf(s, DigitSet, i1), LAMBDA end :
    Bind(FirstNotOf(SubSeq(s, 1, end - 1), { "0" }, i1),
         LAMBDA nonzero :
        IF end = i1 THEN [ok |-> FALSE, value |-> 0]
        ELSE SignedValue(SubSeq(s, nonzero, end - 1),
                         signed /\ s[i0] = "-")))))))

ParseLineRange(range) ==
    Bind(find(range, <<"-">>, 1), LAMBDA dash :
        IF dash = 0 THEN [ok |-> FALSE, first |-> 0, second |-> 0]
        ELSE Bind(stoi(SubSeq(range, 1, dash - 1)), LAMBDA start :
             Bind(stoi(SubSeq(range, dash + 1, Len(range))), LAMBDA end :
                 IF start.ok /\ end.ok
                 THEN [ok |-> TRUE, first |-> start.value,
                       second |-> end.value]
                 ELSE [ok |-> FALSE, first |-> 0, second |-> 0])))

\* The components of the text of a path: the texts between its slashes,
\* empty ones dropped; lo is where the component being read began.
RECURSIVE PathComponents(_, _, _)
PathComponents(str, lo, i) ==
    IF i > Len(str)
    THEN (IF lo < i THEN << SubSeq(str, lo, i - 1) >> ELSE <<>>)
    ELSE IF str[i] = "/"
         THEN (IF lo < i THEN << SubSeq(str, lo, i - 1) >> ELSE <<>>)
                  \o PathComponents(str, i + 1, i + 1)
         ELSE PathComponents(str, lo, i + 1)

\* std::filesystem::path(str): its components, and an empty one last when
\* the text ends in a separator after a component.
PathOf(str) ==
    Bind(str, LAMBDA s :
    Bind(PathComponents(s, 1, 1), LAMBDA comps :
        [abs |-> s # <<>> /\ s[1] = "/",
         comps |-> IF comps # <<>> /\ s[Len(s)] = "/"
                   THEN Append(comps, <<>>) ELSE comps]))

ToUpperText(str) ==
    Bind(str, LAMBDA s :
        [i \in 1..Len(s) |-> Bind(s[i], LAMBDA c : ToUpper(c))])

\* The content block taken to the end of the command: the sentinel and the
\* text after it are part of the block.
ContentBlockWhole(args, newline, sentinel) ==
    Bind(SubSeq(args, newline + 1, Len(args)), LAMBDA block :
        IF block # <<>> /\ block[Len(block)] = NL
        THEN SubSeq(block, 1, Len(block) - 1)
        ELSE block)

\* The content block of WRITE and INSERT: what follows the first newline at
\* or after pos, up to the first sentinel if there is one, less one
\* trailing newline.
ContentBlock(args, newline, sentinel) ==
    Bind(SubSeq(args, newline + 1, Len(args)), LAMBDA rest :
    Bind(find(rest, sentinel, 1), LAMBDA end_marker :
    Bind(IF end_marker # 0 THEN SubSeq(rest, 1, end_marker - 1) ELSE rest,
         LAMBDA block :
        IF block # <<>> /\ block[Len(block)] = NL
        THEN SubSeq(block, 1, Len(block) - 1)
        ELSE block)))

\* An error whose message quotes a text of the command.
ErrorQuoting(msg, text) ==
    [msg |-> msg, nums |-> <<>>, path |-> EmptyPath, text |-> text]

UnknownCommand(cmd_type) ==
    ErrorQuoting("Unknown command: X. Available: READ_LINES, GREP, LIST, FILE_INFO, WRITE, INSERT, DELETE_LINES, CREATE, FINISH",
                 cmd_type)

\* FINISH dispatched without the finished flag.
DispatchFinishUnflagged(fsys, args) ==
    Returned([ToolResult EXCEPT !.success = TRUE,
                                !.output = << RawText(args) >>], fsys)

\* The FINISH branch of Execute (lines 731-733).
DispatchFinish(fsys, args) == Finish(fsys, args)

\* The dispatch of Execute on the verb (lines 605-739); order is the
\* directory iteration order a GREP meets.
Dispatch(fsys, wd, cmd_type, args, order) ==
    Bind(ExtractQuotedOrWord(args, 1), LAMBDA first :
    Bind(ExtractQuotedOrWord(args, first.pos), LAMBDA second :
    Bind(ParseLineRange(second.word), LAMBDA line_range :
    Bind(find(args, <<NL>>, second.pos), LAMBDA newline :
    IF cmd_type = READ_LINES
    THEN IF ~line_range.ok
         THEN Failed(Error("Invalid line range format. Use: READ_LINES <path> <start>-<end>",
                           <<>>, EmptyPath), fsys)
         ELSE ReadLines(fsys, wd, PathOf(first.word),
                        line_range.first, line_range.second)
    ELSE IF cmd_type = GREP
    THEN Grep(fsys, wd, first.word,
              PathOf(IF second.word = <<>> THEN <<".">> ELSE second.word),
              order)
    ELSE IF cmd_type = LIST
    THEN ListDir(fsys, wd,
                 PathOf(TrimTrailing(IF args = <<>> THEN <<".">> ELSE args)))
    ELSE IF cmd_type = FILE_INFO
    THEN FileInfo(fsys, wd, PathOf(TrimTrailing(args)))
    ELSE IF cmd_type = CREATE
    THEN CreateFile(fsys, wd, PathOf(TrimTrailing(args)))
    ELSE IF cmd_type = DELETE_LINES
    THEN IF ~line_range.ok
         THEN Failed(Error("Invalid format. Use: DELETE_LINES <path> <start>-<end>",
                           <<>>, EmptyPath), fsys)
         ELSE DeleteLines(fsys, wd, PathOf(first.word),
                          line_range.first, line_range.second)
    ELSE IF cmd_type = WRITE
    THEN IF ~line_range.ok
         THEN Failed(Error("Invalid format. Use: WRITE <path> <start>-<end>\\n<content>\\nEND_WRITE",
                           <<>>, EmptyPath), fsys)
         ELSE IF newline = 0
         THEN Failed(Error("Missing content block. Content should follow on next line.",
                           <<>>, EmptyPath), fsys)
         ELSE WriteLines(fsys, wd, PathOf(first.word),
                         line_range.first, line_range.second,
                         ContentBlock(args, newline, END_WRITE))
    ELSE IF cmd_type = INSERT
    THEN Bind(stoi(second.word), LAMBDA after_line :
         IF ~after_line.ok
         THEN Failed(Error("Invalid line number.", <<>>, EmptyPath), fsys)
         ELSE IF newline = 0
         THEN Failed(Error("Missing content block.", <<>>, EmptyPath), fsys)
         ELSE InsertLines(fsys, wd, PathOf(first.word), after_line.value,
                          ContentBlock(args, newline, END_INSERT)))
    ELSE IF cmd_type = FINISH
    THEN DispatchFinish(fsys, args)
    ELSE Failed(UnknownCommand(cmd_type), fsys)))))

\* Execute: leading whitespace dropped, the verb is the text before the
\* first space in upper case, the arguments are the text after that space.
Execute(fsys, wd, command, order) ==
    Bind(FirstNotOf(command, Whitespace, 1), LAMBDA start :
    IF start > Len(command)
    THEN Failed(Error("Empty command.", <<>>, EmptyPath), fsys)
    ELSE
    Bind(SubSeq(command, start, Len(command)), LAMBDA cmd :
    Bind(find(cmd, <<" ">>, 1), LAMBDA space_pos :
    Bind(ToUpperText(IF space_pos # 0
                     THEN SubSeq(cmd, 1, space_pos - 1) ELSE cmd),
         LAMBDA cmd_type :
    Bind(IF space_pos # 0 THEN SubSeq(cmd, space_pos + 1, Len(cmd)) ELSE <<>>,
         LAMBDA args :
        Dispatch(fsys, wd, cmd_type, args, order))))))

(***************************************************************************)
(* Inputs.                                                                 *)
(***************************************************************************)
\* Paths inside the working root that the editing calls are tried on with
\* every range and content: an existing file, and a file to be created in
\* a directory that does not exist yet.
EditPaths == { RelPath(<<nF>>), RelPath(<<nS, nG>>) }

\* Further paths, tried with one range and one content: the root itself, a
\* path below a regular file, the existing file by its absolute path, a file
\* of the sibling directory whose name begins with the root's name, and a
\* file elsewhere, relative and absolute.
SiblingFile == RelPath(<<DOTDOT, nP2, nF>>)

OtherPaths ==
    { RelPath(<<DOT>>), RelPath(<<nF, nX>>), AbsPath(<<nW, nP, nF>>),
      SiblingFile, RelPath(<<DOTDOT, DOTDOT, nE, nF>>), AbsPath(<<nE, nF>>) }

Paths == EditPaths \cup OtherPaths

ReadRanges ==
    { <<1, 1>>, <<1, 3>>, <<3, 3>>, <<2, 5>>, <<5, 6>>, <<3, 2>>, <<0, 1>>,
      <<1, MAX_READ_LINES>>, <<1, MAX_READ_LINES + 1>>,
      <<4, MAX_READ_LINES + 3>>, <<2, MAX_READ_LINES + 2>>,
      <<0, MAX_READ_LINES + 1>> }

EditRanges ==
    { <<1, 1>>, <<2, 3>>, <<3, 3>>, <<1, 5>>, <<5, 6>>, <<0, 1>>, <<2, 1>> }

AfterLines == { -1, 0, 1, 2, 7 }

Contents ==
    { <<>>, <<"x">>, <<"x", NL, "y">>, <<"x", NL>>, <<NL>>,
      [k \in 1..(MAX_WRITE_LINES + 1) |-> NL] }

\* A block of exactly MAX_WRITE_LINES lines.
FullBlock == [k \in 1..MAX_WRITE_LINES |-> NL]

ReadInputs ==
    (EditPaths \X ReadRanges) \cup (OtherPaths \X {<<1, 1>>, <<0, 1>>})

WriteInputs ==
    (EditPaths \X EditRanges \X Contents)
        \cup (OtherPaths \X {<<1, 1>>} \X {<<"x">>})

InsertInputs ==
    (EditPaths \X AfterLines \X Contents)
        \cup (OtherPaths \X {0} \X {<<"x">>})

DeleteInputs == (EditPaths \X EditRanges) \cup (OtherPaths \X {<<1, 1>>})

\* What the existing file may hold when the tool set is constructed: nothing,
\* text without a final newline, text ending in one newline, text ending in
\* an empty line.
InitialBytes ==
    { <<>>,
      <<"a", NL, "b">>,
      <<"a", NL, "b", NL, "c", NL>>,
      <<"a", NL, NL>> }

InitialTree(bytes) ==
    [p \in Universe |->
        CASE p \in { <<>>, <<nW>>, WorkRoot, <<nW, nP2>>, <<nE>> } -> DirNode
          [] p = <<nW, nP, nF>> -> FileNode(bytes)
          [] p = <<nW, nP2, nF>> -> FileNode(<<"k", NL>>)
          [] p = <<nE, nF>> -> FileNode(<<"r", NL>>)
          [] OTHER -> NoNode]

(***************************************************************************)
(* The tool set over a populated project tree: the directory operations,   *)
(* the command dispatcher and the largest content blocks.                  *)
(***************************************************************************)
\* A file of one line "b" and then n lines that hold the letter a, in
\* either case.
LinesWithA(n) ==
    << <<"b">> >> \o [k \in 1..n |-> IF k % 2 = 1 THEN <<"a">> ELSE <<"x", "A">>]

\* The project: f and (when nh >= 0) h in the root, g in the directory s
\* below it, and the trees outside the root as before.
ProjectTree(nf, nh) ==
    [p \in Universe |->
        CASE p \in { <<>>, <<nW>>, WorkRoot, <<nW, nP, nS>>, <<nW, nP2>>, <<nE>> }
                 -> DirNode
          [] p = <<nW, nP, nF>> -> FileNode(FileBytes(LinesWithA(nf)))
          [] p = <<nW, nP, nH>> ->
                 IF nh < 0 THEN NoNode ELSE FileNode(FileBytes(LinesWithA(nh)))
          [] p = <<nW, nP, nS, nG>> -> FileNode(<<"a", NL, "a", NL>>)
          [] p = <<nW, nP2, nF>> -> FileNode(<<"a", NL>>)
          [] p = <<nE, nF>> -> FileNode(<<"r", NL>>)
          [] OTHER -> NoNode]

\* Matching lines in the root's files: 3, exactly MAX_GREP_RESULTS, one
\* more, and more again.
ProjectSizes ==
    { <<3, -1>>, <<MAX_GREP_RESULTS - 8, 8>>, <<MAX_GREP_RESULTS - 8, 9>>,
      <<MAX_GREP_RESULTS - 8, 12>> }

Patterns == { <<"a">>, <<"z">>, <<>>, <<"(">> }

SearchPaths ==
    { RelPath(<<DOT>>), RelPath(<<nS>>), RelPath(<<nF>>), RelPath(<<nH>>),
      RelPath(<<DOTDOT, nP2>>), AbsPath(<<nE>>) }

InfoPaths == Paths \cup { RelPath(<<nH>>), RelPath(<<nS>>), RelPath(<<nS, nG>>) }

BlockInputs ==
    { RelPath(<<nF>>), RelPath(<<nH>>), SiblingFile }
        \X { 0, 1 }
        \X { FullBlock, [k \in 1..(MAX_WRITE_LINES + 1) |-> NL] }

Commands ==
    { << "F", "I", "N", "I", "S", "H", " ", "d", "o", "n", "e" >>,
      << "f", "i", "n", "i", "s", "h", " ", "o", "k", " ", " " >>,
      << "F", "I", "N", "I", "S", "H" >>,
      << " ", " ", "F", "i", "n", "i", "s", "h", " ", "x", NL >>,
      << "F", "I", "N", "I", "S", "H", NL >>,
      << "F", "I", "N", "I", "S", "H", "\t", "x" >>,
      << "F", "I", "N", "I", "S", "H", "E", "D", " ", "x" >>,
      << "R", "E", "A", "D", "_", "L", "I", "N", "E", "S", " ", "f", " ", "1",
         "-", "2" >>,
      << "R", "E", "A", "D", "_", "L", "I", "N", "E", "S", " ", "f", " ", "1",
         "2" >>,
      << "r", "e", "a", "d", "_", "l", "i", "n", "e", "s", " ", "\"", "f",
         "\"", " ", "1", "-", "2" >>,
      << "R", "E", "A", "D", "_", "L", "I", "N", "E", "S", " ", ".", " ", "1",
         "-", "1" >>,
      << "R", "E", "A", "D", "_", "L", "I", "N", "E", "S", " ", ".", ".", "/",
         "p", "2", "/", "f", " ", "1", "-", "1" >>,
      << "G", "R", "E", "P", " ", "a" >>,
      << "G", "R", "E", "P", " ", "a", " ", "s" >>,
      << "G", "R", "E", "P", " ", "(", " ", "." >>,
      << "L", "I", "S", "T" >>,
      << "L", "I", "S", "T", " ", "s" >>,
      << "L", "I", "S", "T", " ", "f" >>,
      << "F", "I", "L", "E", "_", "I", "N", "F", "O", " ", "f" >>,
      << "F", "I", "L", "E", "_", "I", "N", "F", "O", " ", "h", NL >>,
      << "F", "I", "L", "E", "_", "I", "N", "F", "O", " ", "/", "e", "/", "f" >>,
      << "C", "R", "E", "A", "T", "E", " ", "h" >>,
      << "C", "R", "E", "A", "T", "E", " ", "s", "/", "g" >>,
      << "C", "R", "E", "A", "T", "E", " ", "f", "/", "x" >>,
      << "C", "R", "E", "A", "T", "E", " ", "h", "/" >>,
      << "D", "E", "L", "E", "T", "E", "_", "L", "I", "N", "E", "S", " ", "f",
         " ", "9", "0", "-", "9", "0" >>,
      << "W", "R", "I", "T", "E", " ", "s", " ", "1", "-", "1", NL, "x", NL,
         "E", "N", "D", "_", "W", "R", "I", "T", "E" >>,
      << "R", "E", "A", "D", "_", "L", "I", "N", "E", "S", " ", "f", " ", "1",
         "-", "6", "0" >>,
      << "D", "E", "L", "E", "T", "E", "_", "L", "I", "N", "E", "S", " ", "f",
         " ", "1", "-", "1" >>,
      << "D", "E", "L", "E", "T", "E", "_", "L", "I", "N", "E", "S", " ", "f",
         " ", "x" >>,
      << "W", "R", "I", "T", "E", " ", "f", " ", "1", "-", "1", NL, "x", NL,
         "E", "N", "D", "_", "W", "R", "I", "T", "E" >>,
      << "W", "R", "I", "T", "E", " ", "f", " ", "1", "-", "1" >>,
      << "W", "R", "I", "T", "E", " ", "f", " ", "1", NL, "x" >>,
      << "W", "R", "I", "T", "E", " ", "h", " ", "2", "-", "2", NL, "y", NL >>,
      << "I", "N", "S", "E", "R", "T", " ", "f", " ", "0", NL, "y", NL, "E",
         "N", "D", "_", "I", "N", "S", "E", "R", "T" >>,
      << "I", "N", "S", "E", "R", "T", " ", "f", " ", "z", NL, "y" >>,
      << "I", "N", "S", "E", "R", "T", " ", "f", " ", "0" >>,
      <<>>,
      << " ", " ", NL >>,
      << "B", "O", "G", "U", "S", " ", "f" >> }

(***************************************************************************)
(* The controller RecursiveAgent (recursive_agent.cpp) as constructed.     *)
(***************************************************************************)
\* What an operation of the controller returned: nothing yet, a bool, the
\* final summary, or a message.
Ret(kind, flag, msg, text) ==
    [kind |-> kind, flag |-> flag, msg |-> msg, text |-> text]

NoReturn == Ret("none", FALSE, "", <<>>)

\* The fields of the controller that an operation may change.
Snapshot ==
    [state |-> state_, step_count |-> step_count_, history |-> history_,
     final_summary |-> final_summary_, task |-> current_task_]

\* The flag has not been set in the course of the operation under way.
NoFlag == [set |-> FALSE, infers |-> 0, dispatches |-> 0]

\* RecursiveAgent(config): state_ = Ready, step_count_ = 0, nothing else.
Constructed ==
    /\ state_ = "Ready"
    /\ step_count_ = 0
    /\ history_ = <<>>
    /\ current_task_ = <<>>
    /\ final_summary_ = <<>>
    /\ interrupt_flag = FALSE
    /\ pc = "idle"
    /\ model_output = <<>>
    /\ returned = NoReturn
    /\ entry = Snapshot
    /\ notices = <<>>
    /\ infers = 0
    /\ dispatches = 0
    /\ is_loaded = FALSE
    /\ at_flag = NoFlag

(***************************************************************************)
(* The state machine: one action per operation of the tool set.            *)
(***************************************************************************)
NoCall == [op |-> "none", path |-> EmptyPath, a |-> 0, b |-> 0, content |-> <<>>]

Call(op, path, a, b, content) ==
    [op |-> op, path |-> path, a |-> a, b |-> b, content |-> content]

Init ==
    /\ working_dir_ = WorkRoot
    /\ fs \in { InitialTree(bytes) : bytes \in InitialBytes }
    /\ result = ToolResult
    /\ threw = FALSE
    /\ call = NoCall
    /\ pre = fs
    /\ edits = 0
    /\ Constructed

\* A call is made, once the caller has taken the result of the one before,
\* and what it left behind is recorded.
Invoke(c, out) ==
    /\ call = NoCall
    /\ out.fs # fs => edits < MaxEdits
    /\ call' = c
    /\ pre' = fs
    /\ fs' = out.fs
    /\ result' = out.res
    /\ threw' = out.threw
    /\ edits' = IF out.fs # fs THEN edits + 1 ELSE edits
    /\ UNCHANGED <<working_dir_, agentVars>>

ReadLinesCall ==
    \E in \in ReadInputs :
        Invoke(Call("ReadLines", in[1], in[2][1], in[2][2], <<>>),
               ReadLines(fs, working_dir_, in[1], in[2][1], in[2][2]))

WriteLinesCall ==
    \E in \in WriteInputs :
        Invoke(Call("WriteLines", in[1], in[2][1], in[2][2], in[3]),
               WriteLines(fs, working_dir_, in[1], in[2][1], in[2][2], in[3]))

InsertLinesCall ==
    \E in \in InsertInputs :
        Invoke(Call("InsertLines", in[1], in[2], 0, in[3]),
               InsertLines(fs, working_dir_, in[1], in[2], in[3]))

DeleteLinesCall ==
    \E in \in DeleteInputs :
        Invoke(Call("DeleteLines", in[1], in[2][1], in[2][2], <<>>),
               DeleteLines(fs, working_dir_, in[1], in[2][1], in[2][2]))

CreateFileCall ==
    \E p \in Paths :
        Invoke(Call("CreateFile", p, 0, 0, <<>>),
               CreateFile(fs, working_dir_, p))

\* The caller takes the ToolResult (or the exception) of the last call.
TakeResult ==
    /\ call # NoCall
    /\ call' = NoCall
    /\ result' = ToolResult
    /\ threw' = FALSE
    /\ pre' = fs
    /\ UNCHANGED <<working_dir_, fs, edits, agentVars>>

Next ==
    \/ TakeResult
    \/ ReadLinesCall
    \/ WriteLinesCall
    \/ InsertLinesCall
    \/ DeleteLinesCall
    \/ CreateFileCall

Spec == Init /\ [][Next]_vars

GrepCall ==
    \E pattern \in Patterns, p \in SearchPaths, order \in IterationOrders :
        Invoke(Call("Grep", p, 0, 0, pattern),
               Grep(fs, working_dir_, pattern, p, order))

ListDirCall ==
    \E p \in SearchPaths :
        Invoke(Call("ListDir", p, 0, 0, <<>>), ListDir(fs, working_dir_, p))

FileInfoCall ==
    \E p \in InfoPaths :
        Invoke(Call("FileInfo", p, 0, 0, <<>>), FileInfo(fs, working_dir_, p))

\* WriteLines(path, n, n, block) and InsertLines(path, n, block) with the
\* largest blocks.
WriteBlockCall ==
    \E in \in BlockInputs :
        Invoke(Call("WriteLines", in[1], in[2], in[2], in[3]),
               WriteLines(fs, working_dir_, in[1], in[2], in[2], in[3]))

InsertBlockCall ==
    \E in \in BlockInputs :
        Invoke(Call("InsertLines", in[1], in[2] - 1, 0, in[3]),
               InsertLines(fs, working_dir_, in[1], in[2] - 1, in[3]))

ExecuteCall ==
    \E command \in Commands, order \in IterationOrders :
        Invoke(Call("Execute", EmptyPath, 0, 0, command),
               Execute(fs, working_dir_, command, order))

InitTools ==
    /\ working_dir_ = WorkRoot
    /\ fs \in { ProjectTree(n[1], n[2]) : n \in ProjectSizes }
    /\ result = ToolResult
    /\ threw = FALSE
    /\ call = NoCall
    /\ pre = fs
    /\ edits = 0
    /\ Constructed

NextTools ==
    \/ TakeResult
    \/ GrepCall
    \/ ListDirCall
    \/ FileInfoCall
    \/ WriteBlockCall
    \/ InsertBlockCall
    \/ ExecuteCall

SpecTools == InitTools /\ [][NextTools]_vars

(***************************************************************************)
(* The controller: parsing a response and taking one step.                 *)
(***************************************************************************)
\* config_.max_steps, and the bound of the model on step_count_.
max_steps == 2

THOUGHT_MARK == << "T", "H", "O", "U", "G", "H", "T", ":" >>

CMD_MARK == << "C", "M", "D", ":" >>

\* The trailing trim of the command taking newlines off as well.
CommandTrimWithNewline == Whitespace

\* The characters trimmed off the end of the command: " \t\r".
CommandTrim == { " ", "\t", "\r" }

\* The trailing trim of ParseModelOutput: a text of nothing but characters
\* of the set is left as it is.
TrimEnd(str, set) ==
    Bind(str, LAMBDA s :
    Bind(find_last_not_of(s, set), LAMBDA end :
        IF end # 0 THEN SubSeq(s, 1, end) ELSE s))

ParseFailed == [ok |-> FALSE, thought |-> <<>>, command |-> <<>>]

ParseModelOutput(output) ==
    Bind(find(output, THOUGHT_MARK, 1), LAMBDA thought_pos :
    Bind(find(output, CMD_MARK, 1), LAMBDA cmd_pos :
        IF thought_pos = 0 THEN ParseFailed
        ELSE IF cmd_pos = 0 \/ cmd_pos <= thought_pos THEN ParseFailed
        ELSE
        Bind(Min(FirstNotOf(output, { " ", "\t" }, thought_pos + 8), cmd_pos),
             LAMBDA thought_start :
        Bind(TrimEnd(SubSeq(output, thought_start, cmd_pos - 1), Whitespace),
             LAMBDA thought :
        Bind(FirstNotOf(output, { " ", "\t" }, cmd_pos + 4),
             LAMBDA cmd_start :
        Bind(TrimEnd(SubSeq(output, cmd_start, Len(output)), CommandTrim),
             LAMBDA command :
            [ok |-> thought # <<>> /\ command # <<>>,
             thought |-> thought, command |-> command]))))))

\* The terminal test of Step without Interrupted.
IsTerminalLax(state) == state \in { "Finished", "Error" }

IsTerminal(state) == state \in { "Finished", "Error", "Interrupted" }

\* An observed interruption classified as an error.
InterruptStateError == "Error"

\* The state an observed interruption leaves (lines 105 and 164).
InterruptState == "Interrupted"

\* A parse failure leaving the controller Ready.
ParseFailureStateReady == "Ready"

\* The state a parse failure leaves (line 175).
ParseFailureState == "Error"

\* A callback made: its kind, the fixed words of its message with the
\* numbers in it, the text passed, and the ToolResult passed.
Notice(kind, msg, nums, text, res) ==
    [kind |-> kind, msg |-> msg, nums |-> nums, text |-> text, res |-> res]

Progress(msg, nums) == Notice("progress", msg, nums, <<>>, ToolResult)

\* The text of result.output after Finish.
OutputText(res) == IF res.output = <<>> THEN <<>> ELSE res.output[1].text

AgentStep(thought, command, res, observation) ==
    [thought |-> thought, command |-> command, result |-> res,
     observation |-> observation]

\* The observation of every step being the description of root and task.
ObservationAlwaysInitial ==
    [kind |-> "initial", working_dir |-> working_dir_,
     task |-> current_task_, output |-> <<>>, error |-> NoError]

\* step.observation (lines 204-211).
Observation ==
    IF history_ = <<>>
    THEN [kind |-> "initial", working_dir |-> working_dir_,
          task |-> current_task_, output |-> <<>>, error |-> NoError]
    ELSE LET prev == history_[Len(history_)].result IN
         IF prev.success
         THEN [kind |-> "output", working_dir |-> <<>>, task |-> <<>>,
               output |-> prev.output, error |-> NoError]
         ELSE [kind |-> "error", working_dir |-> <<>>, task |-> <<>>,
               output |-> <<>>, error |-> prev.error]

(***************************************************************************)
(* BuildPrompt: the prompt as the pieces streamed into it, in order.       *)
(***************************************************************************)
\* A piece of the prompt: fixed words, a text, or the error of a result.
Piece(words, text, error) == [words |-> words, text |-> text, error |-> error]

Words(words) == Piece(words, <<>>, NoError)

Text(text) == Piece("", text, NoError)

\* The characters Truncate lets through of a result's output (line 254).
PROMPT_OUTPUT_CHARS == 1000

TruncatedMark == << ".", ".", ".", "[", "t", "r", "u", "n", "c", "a", "t", "e", "d", "]" >>

\* Truncate(s, max_len) (lines 228-231).
Truncate(s, max_len) ==
    IF Len(s) <= max_len THEN s
    ELSE SubSeq(s, 1, max_len) \o TruncatedMark

\* The exchange of one step as BuildPrompt shows it (lines 250-257).
Exchange(step) ==
    << Words("YOUR LAST ACTION:\n"),
       Words("CMD: "), Text(step.command), Words("\n"),
       Words("RESULT:\n") >>
    \o (IF step.result.success
        THEN << Text(Truncate(step.result.output, PROMPT_OUTPUT_CHARS)),
                Words("\n") >>
        ELSE << Words("ERROR: "), Piece("", <<>>, step.result.error),
                Words("\n") >>)

RECURSIVE Exchanges(_)
Exchanges(history) ==
    IF history = <<>> THEN <<>>
    ELSE Exchanges(SubSeq(history, 1, Len(history) - 1))
             \o Exchange(history[Len(history)])

\* The head of every prompt (lines 237-241).
PromptHead(task, dir) ==
    << Words("GetSystemPrompt()"), Words("\n\n"),
       Words("TASK: "), Text(task), Words("\n"),
       Words("DIR: "), Text(PathString(dir)), Words("\n\n") >>

\* A prompt that shows every recorded step, not the last one alone.
BuildPromptWholeHistory(task, dir, history) ==
    PromptHead(task, dir)
    \o (IF history = <<>>
        THEN << Words("Begin by exploring. What is your first action?\n\n"),
                Words("THOUGHT:") >>
        ELSE Exchanges(history)
             \o << Words("\nBased on this result, what is your NEXT action? (Use FINISH if done)\n\n"),
                   Words("THOUGHT:") >>)

\* BuildPrompt (lines 233-263) of current_task_, the working directory of
\* the tool set and history_.
BuildPrompt(task, dir, history) ==
    PromptHead(task, dir)
    \o (IF history = <<>>
        THEN << Words("Begin by exploring. What is your first action?\n\n"),
                Words("THOUGHT:") >>
        ELSE Exchange(history[Len(history)])
             \o << Words("\nBased on this result, what is your NEXT action? (Use FINISH if done)\n\n"),
                   Words("THOUGHT:") >>)

\* What the rest of Step, from the return of the inference on, comes to:
\* the state it leaves, whether it dispatched the command and what Execute
\* left behind, the callbacks made, the step recorded, and its return value.
Outcome(state, value, dispatched, out, command, emitted, steps, summary) ==
    [state |-> state, value |-> value, dispatched |-> dispatched, out |-> out,
     command |-> command, emitted |-> emitted, steps |-> steps,
     summary |-> summary]

Undispatched(state, emitted) ==
    Outcome(state, FALSE, FALSE, Returned(result, fs), <<>>, emitted, <<>>,
            final_summary_)

\* A failed tool result treated as fatal.
AfterToolStateFatal(res) ==
    IF res.finished THEN "Finished"
    ELSE IF res.success THEN "Ready" ELSE "Error"

\* The state after a command that returned (lines 217-223).
AfterToolState(res) == IF res.finished THEN "Finished" ELSE "Ready"

\* The test after the inference left out.
InterruptIgnored(flag) == FALSE

\* interrupt_flag && interrupt_flag->load() after the inference (line 163).
InterruptedAfterInference(flag) == flag

\* Lines 168-224 of Step: the response parsed, told, executed and recorded.
AfterCheck(response, order) ==
    Bind(ParseModelOutput(response), LAMBDA parsed :
    IF ~parsed.ok
    THEN Undispatched(ParseFailureState,
             << Notice("error", "Failed to parse model output: ", <<>>,
                       response, ToolResult) >>)
    ELSE
    Bind(Execute(fs, working_dir_, parsed.command, order), LAMBDA out :
    LET said == << Notice("thought", "", <<>>, parsed.thought, ToolResult),
                   Notice("command", "", <<>>, parsed.command, ToolResult) >>
    IN
    IF out.threw
    THEN Outcome("Executing", FALSE, TRUE, out, parsed.command, said, <<>>,
                 final_summary_)
    ELSE
    LET emitted == Append(said, Notice("tool_result", "", <<>>, <<>>, out.res))
        step == AgentStep(parsed.thought, parsed.command, out.res, Observation)
    IN IF out.res.finished
       THEN Outcome(AfterToolState(out.res), FALSE, TRUE, out, parsed.command,
                    emitted, <<step>>, OutputText(out.res))
       ELSE Outcome(AfterToolState(out.res),
                    AfterToolState(out.res) = "Ready", TRUE, out,
                    parsed.command, emitted, <<step>>, final_summary_)))

\* Lines 163-224 of Step.
AfterInference(response, order) ==
    IF InterruptedAfterInference(interrupt_flag)
    THEN Undispatched(InterruptState, <<>>)
    ELSE AfterCheck(response, order)

\* AgentToolSet::SetWorkingDirectory of an absolute path.
SetWorkingDirectory(fsys, wd, path) ==
    IF exists(fsys, path) /\ is_directory(fsys, path) THEN path ELSE wd

(***************************************************************************)
(* The controller's state machine.  Init, StartTask, Reset and the tests   *)
(* before the loop of Run are one action each; Run and Step stop where     *)
(* they wait for the inference, whose response is an input.                *)
(***************************************************************************)
\* What the model may answer.
Responses ==
    { << "T", "H", "O", "U", "G", "H", "T", ":", " ", "t", NL, "C", "M", "D",
         ":", " ", "F", "I", "N", "I", "S", "H", " ", "d", "o", "n", "e",
         NL >>,
      << "T", "H", "O", "U", "G", "H", "T", ":", " ", "t", NL, "C", "M", "D",
         ":", " ", "F", "I", "N", "I", "S", "H", " ", "o", "k", " ", " " >>,
      << "T", "H", "O", "U", "G", "H", "T", ":", " ", "t", NL, "C", "M", "D",
         ":", " ", "L", "I", "S", "T", " ", ".", NL >>,
      << "T", "H", "O", "U", "G", "H", "T", ":", " ", "t", NL >>,
      << "C", "M", "D", ":", " ", "L", "I", "S", "T", NL, "T", "H", "O", "U",
         "G", "H", "T", ":", " ", "t" >>,
      << "C", "M", "D", ":", " ", "x" >>,
      << "T", "H", "O", "U", "G", "H", "T", ":", " ", NL, "C", "M", "D", ":",
         " ", "L", "I", "S", "T", " ", ".", NL >>,
      << "T", "H", "O", "U", "G", "H", "T", ":", " ", "t", NL, "C", "M", "D",
         ":", " ", NL >>,
      << "T", "H", "O", "U", "G", "H", "T", ":", " ", "t", NL, "C", "M", "D",
         ":", " ", " ", " " >>,
      << "T", "H", "O", "U", "G", "H", "T", ":", "C", "M", "D", ":", " ",
         "L", "I", "S", "T" >>,
      << "T", "H", "O", "U", "G", "H", "T", ":", " ", "t", NL, "C", "M", "D",
         ":", " ", "R", "E", "A", "D", "_", "L", "I", "N", "E", "S", " ",
         ".", " ", "1", "-", "1", NL >> }

Tasks == { << "t" >>, <<>> }

\* The project root, and a directory that does not exist.
TaskDirectories == { WorkRoot, <<nW, nP, nF, nX>> }

\* models::ModelLoader::IsLoaded after Load: loaded when Load returned
\* true; after a failed Load a model loaded before is kept or is not.
IsLoadedAfterLoad(ok, kept) == IF ok THEN TRUE ELSE is_loaded /\ kept

\* Reset leaving the final summary as it was.
ClearedKeepingSummary ==
    [history |-> <<>>, step_count |-> 0, task |-> <<>>,
     final_summary |-> final_summary_, state |-> "Ready"]

\* The fields as Reset leaves them (lines 78-82).
Cleared ==
    [history |-> <<>>, step_count |-> 0, task |-> <<>>,
     final_summary |-> <<>>, state |-> "Ready"]

\* Unload(): model_.Unload().
UnloadCall ==
    /\ pc = "idle"
    /\ is_loaded' = FALSE
    /\ at_flag' = NoFlag
    /\ entry' = Snapshot
    /\ notices' = <<>>
    /\ infers' = 0
    /\ dispatches' = 0
    /\ returned' = Ret("void", FALSE, "Unload", <<>>)
    /\ UNCHANGED <<toolVars, state_, step_count_, history_, current_task_,
                   final_summary_, interrupt_flag, pc, model_output>>

\* Init(): the model loads or it does not.
InitCall ==
    /\ pc = "idle"
    /\ \E loaded \in BOOLEAN :
        /\ state_' = IF loaded THEN state_ ELSE "Error"
        /\ notices' =
             IF loaded
             THEN << Progress("Loading model: ", <<>>),
                     Progress("Model loaded successfully", <<>>) >>
             ELSE << Progress("Loading model: ", <<>>),
                     Notice("error", "Failed to load model: ", <<>>, <<>>,
                            ToolResult) >>
        /\ returned' = Ret("bool", loaded, "", <<>>)
        /\ \E kept \in BOOLEAN : is_loaded' = IsLoadedAfterLoad(loaded, kept)
        /\ at_flag' = NoFlag
    /\ entry' = Snapshot
    /\ infers' = 0
    /\ dispatches' = 0
    /\ UNCHANGED <<toolVars, step_count_, history_, current_task_,
                   final_summary_, interrupt_flag, pc, model_output>>

ResetCall ==
    /\ pc = "idle"
    /\ history_' = Cleared.history
    /\ step_count_' = Cleared.step_count
    /\ current_task_' = Cleared.task
    /\ final_summary_' = Cleared.final_summary
    /\ state_' = Cleared.state
    /\ UNCHANGED is_loaded
    /\ at_flag' = NoFlag
    /\ entry' = Snapshot
    /\ notices' = <<>>
    /\ infers' = 0
    /\ dispatches' = 0
    /\ returned' = Ret("void", FALSE, "Reset", <<>>)
    /\ UNCHANGED <<toolVars, interrupt_flag, pc, model_output>>

StartTaskIn(directories) ==
    /\ pc = "idle"
    /\ \E task \in Tasks, dir \in directories :
        /\ current_task_' = task
        /\ working_dir_' = SetWorkingDirectory(fs, working_dir_, dir)
        /\ notices' = << Notice("progress", "Starting task in: ", <<>>,
                                PathString(dir), ToolResult) >>
    /\ history_' = Cleared.history
    /\ step_count_' = Cleared.step_count
    /\ final_summary_' = Cleared.final_summary
    /\ state_' = "Ready"
    /\ UNCHANGED is_loaded
    /\ at_flag' = NoFlag
    /\ entry' = Snapshot
    /\ infers' = 0
    /\ dispatches' = 0
    /\ returned' = Ret("void", FALSE, "StartTask", <<>>)
    /\ UNCHANGED <<fs, result, threw, call, pre, edits, interrupt_flag, pc,
                   model_output>>

StartTaskCall == StartTaskIn(TaskDirectories)

\* Step up to the call of the inference (lines 136-155).
StepPrelude(by, before, inferred) ==
    /\ step_count_' = step_count_ + 1
    /\ notices' = Append(before, Progress("Step /", <<step_count_ + 1, max_steps>>))
    /\ state_' = "Thinking"
    /\ infers' = inferred + 1
    /\ pc' = by

\* Run() up to its loop (lines 89-98).
RunCall ==
    /\ UNCHANGED is_loaded
    /\ at_flag' = NoFlag
    /\ pc = "idle"
    /\ entry' = Snapshot
    /\ notices' = <<>>
    /\ infers' = 0
    /\ dispatches' = 0
    /\ IF state_ = "Error"
       THEN /\ returned' = Ret("string", FALSE, "Error: Agent in error state", <<>>)
            /\ UNCHANGED <<state_, pc>>
       ELSE IF current_task_ = <<>>
       THEN /\ returned' = Ret("string", FALSE, "Error: No task set. Call StartTask first.", <<>>)
            /\ UNCHANGED <<state_, pc>>
       ELSE /\ state_' = "Ready"
            /\ pc' = "Run:loop"
            /\ returned' = NoReturn
    /\ UNCHANGED <<toolVars, step_count_, history_, current_task_,
                   final_summary_, interrupt_flag, model_output>>

\* std::to_string of a number that is not negative.
RECURSIVE to_string(_)
to_string(n) ==
    IF n < 10 THEN << Digits[n + 1] >>
    ELSE Append(to_string(n \div 10), Digits[(n % 10) + 1])

\* msg of line 112, the number left out.
LimitReached == "Maximum steps () reached. Task may be incomplete."

\* The budget test stopping one step short.
BudgetExhaustedEarly(count) == count + 1 >= max_steps

\* The budget test letting one more step through.
BudgetExhaustedLate(count) == count > max_steps

\* step_count_ >= config_.max_steps (line 110).
BudgetExhausted(count) == count >= max_steps

\* The tests at the top of the loop of Run (lines 100-118), and what
\* follows when they let the step through.
RunLoopTop(through) ==
    /\ UNCHANGED <<is_loaded, at_flag>>
    /\ pc = "Run:loop"
    /\ IF interrupt_flag
       THEN /\ state_' = InterruptState
            /\ notices' = Append(notices, Progress("Task interrupted by user", <<>>))
            /\ returned' = Ret("string", FALSE, "Task interrupted.", <<>>)
            /\ pc' = "idle"
            /\ UNCHANGED <<step_count_, infers>>
       ELSE IF BudgetExhausted(step_count_)
       THEN /\ state_' = "Error"
            /\ notices' = Append(notices,
                   Notice("error", LimitReached, <<max_steps>>, <<>>,
                          ToolResult))
            /\ returned' = Ret("string", FALSE, LimitReached,
                               to_string(max_steps))
            /\ pc' = "idle"
            /\ UNCHANGED <<step_count_, infers>>
       ELSE through
    /\ UNCHANGED <<toolVars, history_, current_task_, final_summary_,
                   interrupt_flag, model_output, entry, dispatches>>

\* One turn of the loop of Run (lines 100-120), into Step and up to the
\* inference.
RunIterate ==
    RunLoopTop(StepPrelude("Run:infer", notices, infers) /\ UNCHANGED returned)

\* Step() called by the embedder, up to the inference.
StepCall ==
    /\ UNCHANGED is_loaded
    /\ at_flag' = NoFlag
    /\ pc = "idle"
    /\ IsTerminal(state_) \/ step_count_ < max_steps
    /\ entry' = Snapshot
    /\ dispatches' = 0
    /\ IF IsTerminal(state_)
       THEN /\ returned' = Ret("bool", FALSE, "", <<>>)
            /\ notices' = <<>>
            /\ infers' = 0
            /\ UNCHANGED <<state_, step_count_, pc>>
       ELSE /\ returned' = NoReturn
            /\ StepPrelude("Step:infer", <<>>, 0)
    /\ UNCHANGED <<toolVars, history_, current_task_, final_summary_,
                   interrupt_flag, model_output>>

\* The end of Run after a Step that returned false (lines 122-132).
RunEpilogue(state, summary, emitted) ==
    IF state = "Finished"
    THEN /\ notices' = (notices \o emitted)
                         \o << Notice("finish", "", <<>>, summary, ToolResult) >>
         /\ returned' = Ret("string", FALSE, "", summary)
    ELSE /\ notices' = notices \o emitted
         /\ returned' = Ret("string", FALSE, "Task ended with state: ",
                            << state >>)

\* The step recorded in place of the history so far.
push_back_replacing(history, steps) ==
    IF steps = <<>> THEN history ELSE steps

\* history_.push_back(step) (line 213), steps being the step or nothing.
push_back(history, steps) == history \o steps

\* Step runs to its end with the outcome o, in_step when the embedder
\* called it; Run goes on from there (lines 120-132).
StepCompletes(o, response, in_step) ==
        /\ UNCHANGED <<is_loaded, at_flag>>
        /\ o.dispatched /\ o.out.fs # fs => edits < MaxEdits
        /\ model_output' = response
        /\ state_' = o.state
        /\ history_' = push_back(history_, o.steps)
        /\ final_summary_' = o.summary
        /\ dispatches' = IF o.dispatched THEN dispatches + 1 ELSE dispatches
        /\ IF o.dispatched
           THEN /\ call' = Call("Execute", EmptyPath, 0, 0, o.command)
                /\ pre' = fs
                /\ fs' = o.out.fs
                /\ result' = o.out.res
                /\ threw' = o.out.threw
                /\ edits' = IF o.out.fs # fs THEN edits + 1 ELSE edits
           ELSE UNCHANGED <<fs, result, threw, call, pre, edits>>
        /\ IF o.dispatched /\ o.out.threw
           THEN /\ notices' = notices \o o.emitted
                /\ returned' = Ret("exception", FALSE, "", <<>>)
                /\ pc' = "idle"
           ELSE IF in_step
           THEN /\ notices' = notices \o o.emitted
                /\ returned' = Ret("bool", o.value, "", <<>>)
                /\ pc' = "idle"
           ELSE IF o.value
           THEN /\ notices' = notices \o o.emitted
                /\ pc' = "Run:loop"
                /\ UNCHANGED returned
           ELSE /\ RunEpilogue(o.state, o.summary, o.emitted)
                /\ pc' = "idle"
        /\ UNCHANGED <<working_dir_, step_count_, current_task_,
                       interrupt_flag, entry, infers>>

\* The inference returns and Step runs to its end.
InferReturnsOf(responses) ==
    /\ pc \in { "Run:infer", "Step:infer" }
    /\ \E response \in responses, order \in IterationOrders :
        \E o \in { AfterInference(response, order) } :
            StepCompletes(o, response, pc = "Step:infer")

InferReturns == InferReturnsOf(Responses)

\* The embedder sets the flag the controller was handed, at any time, and
\* clears it between operations.
SetInterrupt ==
    /\ UNCHANGED <<is_loaded, at_flag>>
    /\ ~interrupt_flag
    /\ interrupt_flag' = TRUE
    /\ UNCHANGED <<toolVars, state_, step_count_, history_, current_task_,
                   final_summary_, pc, model_output, returned, entry, notices,
                   infers, dispatches>>

ClearInterrupt ==
    /\ UNCHANGED <<is_loaded, at_flag>>
    /\ interrupt_flag
    /\ pc = "idle"
    /\ interrupt_flag' = FALSE
    /\ UNCHANGED <<toolVars, state_, step_count_, history_, current_task_,
                   final_summary_, pc, model_output, returned, entry, notices,
                   infers, dispatches>>

InitAgent ==
    /\ working_dir_ = WorkRoot
    /\ fs = ProjectTree(3, -1)
    /\ result = ToolResult
    /\ threw = FALSE
    /\ call = NoCall
    /\ pre = fs
    /\ edits = 0
    /\ Constructed

NextAgent ==
    \/ InitCall
    \/ UnloadCall
    \/ ResetCall
    \/ StartTaskCall
    \/ RunCall
    \/ RunIterate
    \/ StepCall
    \/ InferReturns
    \/ SetInterrupt
    \/ ClearInterrupt

SpecAgent == InitAgent /\ [][NextAgent]_vars

(***************************************************************************)
(* The controller over commands that fail in the tool set: an unknown      *)
(* verb, a malformed range, a path outside the root, too many lines, a     *)
(* missing file, a file that cannot be created.                            *)
(***************************************************************************)
FailingCommands ==
    { << "T", "H", "O", "U", "G", "H", "T", ":", " ", "t", NL, "C", "M", "D",
         ":", " ", "B", "O", "G", "U", "S", " ", "f", NL >>,
      << "T", "H", "O", "U", "G", "H", "T", ":", " ", "t", NL, "C", "M", "D",
         ":", " ", "R", "E", "A", "D", "_", "L", "I", "N", "E", "S", " ",
         "f", " ", "1", "2", NL >>,
      << "T", "H", "O", "U", "G", "H", "T", ":", " ", "t", NL, "C", "M", "D",
         ":", " ", "R", "E", "A", "D", "_", "L", "I", "N", "E", "S", " ",
         "/", "e", "/", "f", " ", "1", "-", "1", NL >>,
      << "T", "H", "O", "U", "G", "H", "T", ":", " ", "t", NL, "C", "M", "D",
         ":", " ", "R", "E", "A", "D", "_", "L", "I", "N", "E", "S", " ",
         "f", " ", "1", "-", "6", "0", NL >>,
      << "T", "H", "O", "U", "G", "H", "T", ":", " ", "t", NL, "C", "M", "D",
         ":", " ", "R", "E", "A", "D", "_", "L", "I", "N", "E", "S", " ",
         "h", " ", "1", "-", "1", NL >>,
      << "T", "H", "O", "U", "G", "H", "T", ":", " ", "t", NL, "C", "M", "D",
         ":", " ", "C", "R", "E", "A", "T", "E", " ", "f", "/", "x", NL >> }

\* A command that succeeds and one that finishes.
OtherCommands ==
    { << "T", "H", "O", "U", "G", "H", "T", ":", " ", "t", NL, "C", "M", "D",
         ":", " ", "L", "I", "S", "T", " ", ".", NL >>,
      << "T", "H", "O", "U", "G", "H", "T", ":", " ", "t", NL, "C", "M", "D",
         ":", " ", "F", "I", "N", "I", "S", "H", " ", "d", "o", "n", "e",
         NL >> }

InferReturnsCommand == InferReturnsOf(FailingCommands \cup OtherCommands)

NextRecovery ==
    \/ StartTaskCall
    \/ RunCall
    \/ RunIterate
    \/ StepCall
    \/ InferReturnsCommand

SpecRecovery == InitAgent /\ [][NextRecovery]_vars

(***************************************************************************)
(* ListDir over directories of up to MAX_LIST_ENTRIES entries and more:    *)
(* the listing of the names "1", "2", ... of n entries, every m-th of      *)
(* them a directory.                                                       *)
(***************************************************************************)
ListSizes ==
    (0..12) \cup ((MAX_LIST_ENTRIES - 3)..(MAX_LIST_ENTRIES + 10))

DirectoryEvery == { 2, 3, 5, 7 }

EntryNames(n, m) == { Decorated(to_string(k), k % m = 0) : k \in 1..n }

ListingCall ==
    \E n \in ListSizes, m \in DirectoryEvery :
        Invoke(Call("Listing", EmptyPath, n, m, <<>>),
               Returned(Listing(EntryNames(n, m)), fs))

NextListing ==
    \/ TakeResult
    \/ ListingCall

SpecListing == InitAgent /\ [][NextListing]_vars

(***************************************************************************)
(* A Run and another thread that sets the interrupt flag.  The flag is an  *)
(* atomic the loop of Run reads at its top (line 104) and Step reads after *)
(* the inference (line 163); the other thread may set it between any two   *)
(* of the controller's steps: before the test of the loop, between that    *)
(* test and the inference, during the inference, between its return and    *)
(* the test of line 163, and between that test and the command.            *)
(***************************************************************************)
\* What the model answers: a command that creates a file, one that lists,
\* one that finishes, one that throws, and no command at all.
InterruptResponses ==
    { << "T", "H", "O", "U", "G", "H", "T", ":", " ", "t", NL, "C", "M", "D",
         ":", " ", "C", "R", "E", "A", "T", "E", " ", "h", NL >>,
      << "T", "H", "O", "U", "G", "H", "T", ":", " ", "t", NL, "C", "M", "D",
         ":", " ", "L", "I", "S", "T", " ", ".", NL >>,
      << "T", "H", "O", "U", "G", "H", "T", ":", " ", "t", NL, "C", "M", "D",
         ":", " ", "F", "I", "N", "I", "S", "H", " ", "d", "o", "n", "e",
         NL >>,
      << "T", "H", "O", "U", "G", "H", "T", ":", " ", "t", NL, "C", "M", "D",
         ":", " ", "R", "E", "A", "D", "_", "L", "I", "N", "E", "S", " ",
         ".", " ", "1", "-", "1", NL >>,
      << "T", "H", "O", "U", "G", "H", "T", ":", " ", "t", NL >> }

\* The tests at the top of the loop (lines 104-118) let the step through.
RunLoopCheck ==
    RunLoopTop(/\ pc' = "Run:step"
               /\ UNCHANGED <<state_, step_count_, notices, returned, infers>>)

\* Step up to the call of the inference (lines 136-160).
RunStepBegins ==
    /\ pc = "Run:step"
    /\ StepPrelude("Run:infer", notices, infers)
    /\ UNCHANGED <<toolVars, history_, current_task_, final_summary_,
                   interrupt_flag, model_output, returned, entry, dispatches,
                   is_loaded, at_flag>>

\* model_.Infer returns its text (lines 150-160).
InferenceReturns ==
    /\ pc = "Run:infer"
    /\ \E response \in InterruptResponses : model_output' = response
    /\ pc' = "Run:check"
    /\ UNCHANGED <<toolVars, state_, step_count_, history_, current_task_,
                   final_summary_, interrupt_flag, returned, entry, notices,
                   infers, dispatches, is_loaded, at_flag>>

\* The test of the flag after the inference (lines 163-166).
InterruptCheck ==
    /\ pc = "Run:check"
    /\ IF InterruptedAfterInference(interrupt_flag)
       THEN StepCompletes(Undispatched(InterruptState, <<>>), model_output,
                          FALSE)
       ELSE /\ pc' = "Run:execute"
            /\ UNCHANGED <<toolVars, state_, step_count_, history_,
                           current_task_, final_summary_, interrupt_flag,
                           model_output, returned, entry, notices, infers,
                           dispatches, is_loaded, at_flag>>

\* The rest of Step (lines 168-224) and Run from its return on.
ExecuteStep ==
    /\ pc = "Run:execute"
    /\ \E order \in IterationOrders :
        \E o \in { AfterCheck(model_output, order) } :
            StepCompletes(o, model_output, FALSE)

\* The other thread sets the flag while Run is under way.
SetInterruptInRun ==
    /\ pc # "idle"
    /\ ~interrupt_flag
    /\ interrupt_flag' = TRUE
    /\ at_flag' = [set |-> TRUE, infers |-> infers, dispatches |-> dispatches]
    /\ UNCHANGED <<toolVars, state_, step_count_, history_, current_task_,
                   final_summary_, pc, model_output, returned, entry, notices,
                   infers, dispatches, is_loaded>>

NextInterrupt ==
    \/ StartTaskCall
    \/ RunCall
    \/ RunLoopCheck
    \/ RunStepBegins
    \/ InferenceReturns
    \/ InterruptCheck
    \/ ExecuteStep
    \/ SetInterruptInRun
    \/ ClearInterrupt

SpecInterrupt == InitAgent /\ [][NextInterrupt]_vars

(***************************************************************************)
(* Tasks started in directories that exist and in paths that are no        *)
(* directory, and commands that name paths in and out of the root.         *)
(***************************************************************************)
\* The project root, a directory below it, a path where nothing is, and a
\* regular file.
RootDirectories ==
    { WorkRoot, <<nW, nP, nS>>, <<nW, nP, nF, nX>>, <<nW, nP, nF>> }

\* A listing of the root, a listing of its parent, a read of a file in the
\* directory beside the project root, and the end of the task.
RootCommands ==
    { << "T", "H", "O", "U", "G", "H", "T", ":", " ", "t", NL, "C", "M", "D",
         ":", " ", "L", "I", "S", "T", " ", ".", NL >>,
      << "T", "H", "O", "U", "G", "H", "T", ":", " ", "t", NL, "C", "M", "D",
         ":", " ", "L", "I", "S", "T", " ", ".", ".", NL >>,
      << "T", "H", "O", "U", "G", "H", "T", ":", " ", "t", NL, "C", "M", "D",
         ":", " ", "R", "E", "A", "D", "_", "L", "I", "N", "E", "S", " ",
         ".", ".", "/", "p", "2", "/", "f", " ", "1", "-", "1", NL >>,
      << "T", "H", "O", "U", "G", "H", "T", ":", " ", "t", NL, "C", "M", "D",
         ":", " ", "F", "I", "N", "I", "S", "H", " ", "d", "o", "n", "e",
         NL >> }

StartTaskAnywhere == StartTaskIn(RootDirectories)

InferReturnsRootCommand == InferReturnsOf(RootCommands)

NextRoot ==
    \/ StartTaskAnywhere
    \/ RunCall
    \/ RunIterate
    \/ StepCall
    \/ InferReturnsRootCommand

SpecRoot == InitAgent /\ [][NextRoot]_vars

\* The same, the thread of the controller going on whenever it can: Run is
\* synchronous code, and every inference is taken to return.
SpecTermination ==
    /\ SpecInterrupt
    /\ WF_vars(RunLoopCheck)
    /\ WF_vars(RunStepBegins)
    /\ WF_vars(InferenceReturns)
    /\ WF_vars(InterruptCheck)
    /\ WF_vars(ExecuteStep)

(***************************************************************************)
(* Vocabulary of the properties: the last call, its target, the lines of   *)
(* the target before and after.                                            *)
(***************************************************************************)
Called(op) == call.op = op

Target == ResolvePath(working_dir_, call.path)

InRoot == IsWithin(working_dir_, Target)

WasFile == pre[Target].kind = "file"

L == ReadFileLines(pre, Target)

N == Len(L)

NewLines == ReadFileLines(fs, Target)

C == ContentLines(call.content)

EmptyLines(n) == [k \in 1..Max(0, n) |-> <<>>]

OthersUntouched == \A q \in Universe : q # Target => fs[q] = pre[q]

Rejected == ~threw /\ ~result.success /\ result.error = PathOutside /\ fs = pre

Editing == {"WriteLines", "InsertLines", "DeleteLines", "CreateFile"}

ValidRange == call.a >= 1 /\ call.b >= call.a

Span == call.b - call.a + 1

(***************************************************************************)
(* C1: every operation on a path whose resolved target is neither the      *)
(* working root nor a descendant of it fails with the sandbox-violation    *)
(* error and leaves the filesystem as it was.                              *)
(***************************************************************************)
C1_OutsideRejected ==
    (call # NoCall /\ ~InRoot) => Rejected

(***************************************************************************)
(* C2: the sandbox check is component-wise: a target in a sibling          *)
(* directory whose name merely begins with the root's name does not pass,  *)
(* and the operation on it is refused as a sandbox violation.              *)
(***************************************************************************)
NameSharesPrefix ==
    /\ ~InRoot
    /\ StartsWith(PathString(Target), PathString(working_dir_))

C2_SiblingDoesNotPass ==
    (call # NoCall /\ NameSharesPrefix) =>
        (~IsPathSafe(working_dir_, Target) /\ result.error = PathOutside)

(***************************************************************************)
(* C3 as stated: for an existing N-line file and 1 <= start <= end with    *)
(* end-start+1 <= 50, ReadLines succeeds with lines_returned =             *)
(* min(end,N)-start+1.                                                     *)
(***************************************************************************)
ReadsFile ==
    /\ Called("ReadLines") /\ InRoot /\ WasFile
    /\ ValidRange /\ Span <= MAX_READ_LINES

C3_AsStated ==
    ReadsFile =>
        (result.success /\ result.lines_returned = Min(call.b, N) - call.a + 1)

(***************************************************************************)
(* C3 amended: ReadLines succeeds with lines_returned =                    *)
(* max(0, min(end,N)-start+1) and emits exactly that many numbered lines,  *)
(* the i-th being line start+i-1 of the file under its own number; all     *)
(* that may follow them is the EOF marker.                                 *)
(***************************************************************************)
Returned3 == Max(0, Min(call.b, N) - call.a + 1)

C3_ReadReturnsRange ==
    ReadsFile =>
        /\ ~threw /\ result.success
        /\ result.lines_returned = Returned3
        /\ Len(result.output) \in {Returned3, Returned3 + 1}
        /\ \A i \in 1..Returned3 :
              result.output[i] = OutLine("line", <<call.a + i - 1>>, L[call.a + i - 1])
        /\ \A i \in (Returned3 + 1)..Len(result.output) :
              result.output[i].tag # "line"
        /\ fs = pre

C3_Witness ==
    /\ ReadsFile /\ result.success
    /\ call.a = 2 /\ call.b = 5 /\ N = 3 /\ result.lines_returned = 2

(***************************************************************************)
(* C4: a ReadLines whose requested span end-start+1 exceeds 50 fails with  *)
(* the "Too many lines requested" error whether or not the file exists     *)
(* and whatever its length; a span of exactly 50 is not refused by the     *)
(* cap.                                                                    *)
(***************************************************************************)
TooManyError(n) ==
    Error("Too many lines requested (N). Maximum is M. Narrow your request.",
          <<n, MAX_READ_LINES>>, EmptyPath)

C4_ReadCap ==
    Called("ReadLines") =>
        /\ Span > MAX_READ_LINES =>
              (~threw /\ ~result.success /\ result.output = <<>> /\ fs = pre)
        /\ (ValidRange /\ Span > MAX_READ_LINES) =>
              result.error = TooManyError(Span)
        /\ Span <= MAX_READ_LINES => result.error.msg # TooManyError(Span).msg
        /\ (ValidRange /\ Span = MAX_READ_LINES /\ InRoot /\ WasFile) =>
              result.success

C4_Witness ==
    /\ Called("ReadLines") /\ ValidRange /\ Span = MAX_READ_LINES + 1
    /\ ~exists(pre, Target)
    /\ result.error = TooManyError(MAX_READ_LINES + 1)

(***************************************************************************)
(* C5: reading past the end of an existing N-line file succeeds, returns   *)
(* only lines of the file, and the output holds the marker                 *)
(* "[EOF at line N]" with the file's length; the marker is absent          *)
(* whenever end <= N.                                                      *)
(***************************************************************************)
EofMarker(n) == OutLine("[EOF at line N]", <<n>>, <<>>)

HasEofMarker(output) ==
    \E i \in 1..Len(output) : output[i].tag = EofMarker(0).tag

C5_SoftEof ==
    ReadsFile =>
        /\ result.success
        /\ call.b > N =>
              /\ \E i \in 1..Len(result.output) : result.output[i] = EofMarker(N)
              /\ \A i \in 1..Len(result.output) :
                    result.output[i].tag = "line" =>
                        result.output[i].nums[1] \in call.a..N
        /\ call.b <= N => ~HasEofMarker(result.output)

C5_Witness ==
    /\ ReadsFile /\ result.success
    /\ call.b > N /\ result.lines_returned > 0
    /\ result.output[Len(result.output)] = EofMarker(N)

(***************************************************************************)
(* C6: WriteLines on an existing file with lines L (N of them), start >= 1,*)
(* end >= start and content C of at most 200 lines succeeds and leaves     *)
(* L[1..min(start-1,N)], then start-1-N empty lines if start-1 > N, then   *)
(* C, then L[min(end,N)+1..N].                                             *)
(***************************************************************************)
WritesFile ==
    /\ Called("WriteLines") /\ InRoot /\ WasFile
    /\ ValidRange /\ Len(C) <= MAX_WRITE_LINES

C6_WriteReplacesRange ==
    WritesFile =>
        /\ ~threw /\ result.success
        /\ NewLines = SubSeq(L, 1, Min(call.a - 1, N))
                        \o EmptyLines(call.a - 1 - N)
                        \o C
                        \o SubSeq(L, Min(call.b, N) + 1, N)
        /\ OthersUntouched

C6_Witness ==
    /\ WritesFile /\ result.success
    /\ N = 3 /\ call.a = 2 /\ call.b = 3 /\ Len(C) = 2
    /\ NewLines = <<L[1], C[1], C[2]>>

(***************************************************************************)
(* C7: InsertLines(afterLine, C) with afterLine >= 0 on an existing file   *)
(* with lines L leaves L[1..p] ++ C ++ L[p+1..N], p = min(afterLine, N):   *)
(* 0 prepends, afterLine >= N appends, no existing line is removed or      *)
(* reordered; a negative afterLine fails.                                  *)
(***************************************************************************)
InsertsInFile ==
    /\ Called("InsertLines") /\ InRoot /\ WasFile
    /\ Len(C) <= MAX_WRITE_LINES

C7_InsertAfterLine ==
    InsertsInFile =>
        /\ call.a >= 0 =>
              /\ ~threw /\ result.success
              /\ NewLines = SubSeq(L, 1, Min(call.a, N)) \o C
                              \o SubSeq(L, Min(call.a, N) + 1, N)
              /\ call.a = 0 => NewLines = C \o L
              /\ call.a >= N => NewLines = L \o C
              /\ OthersUntouched
        /\ call.a < 0 => (~result.success /\ fs = pre)

C7_Witness ==
    /\ InsertsInFile /\ result.success
    /\ N = 3 /\ call.a = 1 /\ Len(C) = 2
    /\ NewLines = <<L[1], C[1], C[2], L[2], L[3]>>

(***************************************************************************)
(* C8: DeleteLines(start, end) with 1 <= start <= N and end >= start on an *)
(* existing file removes exactly lines start..min(end,N), leaving          *)
(* L[1..start-1] ++ L[min(end,N)+1..N]; with start > N it fails and the    *)
(* file is unchanged.                                                      *)
(***************************************************************************)
DeletesInFile ==
    /\ Called("DeleteLines") /\ InRoot /\ WasFile /\ ValidRange

C8_DeleteRemovesSpan ==
    DeletesInFile =>
        /\ call.a <= N =>
              /\ ~threw /\ result.success
              /\ NewLines = SubSeq(L, 1, call.a - 1)
                              \o SubSeq(L, Min(call.b, N) + 1, N)
              /\ Len(NewLines) = N - (Min(call.b, N) - call.a + 1)
              /\ OthersUntouched
        /\ call.a > N => (~result.success /\ fs = pre)

C8_Witness ==
    /\ DeletesInFile /\ result.success
    /\ N = 3 /\ call.a = 2 /\ call.b = 3
    /\ NewLines = <<L[1]>>

Ancestors(p) == { SubSeq(p, 1, n) : n \in 0..(Len(p) - 1) }

NoFileAbove == \A q \in Ancestors(Target) : pre[q].kind # "file"

AlreadyExistsError ==
    Error("File already exists. Use WRITE to modify.", <<>>, EmptyPath)

Edited == call.op \in Editing /\ result.success

Bytes == fs[Target].bytes

EndsInNewline(b) == b # <<>> /\ b[Len(b)] = NL

C10_AsStated ==
    Edited =>
        /\ NewLines = <<>> => Bytes = <<>>
        /\ Bytes # <<>> =>
              (EndsInNewline(Bytes)
                 /\ ~EndsInNewline(SubSeq(Bytes, 1, Len(Bytes) - 1)))

(***************************************************************************)
(* C10 amended: after a successful mutating operation the file is its      *)
(* lines each followed by one newline: zero bytes when it has no lines,    *)
(* otherwise ending in the newline of its last line, which is the only     *)
(* newline at the end unless that last line is empty.                      *)
(***************************************************************************)
Newlines(b) == Cardinality({ i \in 1..Len(b) : b[i] = NL })

C10_OneNewlinePerLine ==
    Edited =>
        /\ NewLines = <<>> => Bytes = <<>>
        /\ NewLines # <<>> =>
              /\ EndsInNewline(Bytes)
              /\ Newlines(Bytes) = Len(NewLines)
              /\ NewLines[Len(NewLines)] # <<>> =>
                    ~EndsInNewline(SubSeq(Bytes, 1, Len(Bytes) - 1))

C10_Witness ==
    /\ Edited /\ Called("InsertLines")
    /\ ~EndsInNewline(pre[Target].bytes) /\ pre[Target].bytes # <<>>
    /\ EndsInNewline(Bytes)
    /\ ~EndsInNewline(SubSeq(Bytes, 1, Len(Bytes) - 1))

(***************************************************************************)
(* C11: WriteLines and InsertLines accept a content block of at most 200   *)
(* lines. A block of more than 200 lines fails and leaves the filesystem   *)
(* as it was, with the too-many-lines error whenever the call got as far   *)
(* as an existing target in the root with well-formed line numbers; a      *)
(* block of exactly 200 lines is accepted there and all its lines end up   *)
(* in the file.                                                            *)
(***************************************************************************)
TooManyLinesError ==
    IF Called("WriteLines")
    THEN Error("Too many lines to write (N). Maximum is M.",
               <<Len(C), MAX_WRITE_LINES>>, EmptyPath)
    ELSE Error("Too many lines to insert.", <<>>, EmptyPath)

TakesBlock ==
    /\ InRoot /\ WasFile
    /\ \/ Called("WriteLines") /\ ValidRange
       \/ Called("InsertLines") /\ call.a >= 0

C11_WriteCap ==
    (Called("WriteLines") \/ Called("InsertLines")) =>
        /\ Len(C) > MAX_WRITE_LINES =>
              /\ ~result.success /\ fs = pre
              /\ TakesBlock => (~threw /\ result.error = TooManyLinesError)
        /\ (TakesBlock /\ Len(C) = MAX_WRITE_LINES) =>
              /\ result.success /\ result.error = NoError
              /\ Len(NewLines) >= MAX_WRITE_LINES

C11_Witness ==
    /\ TakesBlock /\ Len(C) = MAX_WRITE_LINES /\ result.success
    /\ fs # pre

C11_WitnessRefused ==
    /\ TakesBlock /\ Len(C) = MAX_WRITE_LINES + 1
    /\ result.error = TooManyLinesError

(***************************************************************************)
(* C12: Grep over a directory reports only lines that match, each from a   *)
(* regular file that is an entry of that very directory (never from a file *)
(* in a subdirectory), under its own line number; it reports               *)
(* min(20, total) lines, total being the number of matching lines in all   *)
(* those files together, and sets truncated whenever total exceeds 20.     *)
(***************************************************************************)
GrepsDirectory ==
    /\ Called("Grep") /\ result.success /\ pre[Target].kind = "dir"

Reported == SelectSeq(result.output, LAMBDA line : line.tag = "match")

RECURSIVE MatchTotal(_, _)
MatchTotal(files, pattern) ==
    IF files = {} THEN 0
    ELSE LET file == CHOOSE q \in files : TRUE
         IN Len(MatchingLines(ReadFileLines(pre, file), pattern))
                + MatchTotal(files \ {file}, pattern)

ImmediateFiles ==
    { q \in Universe :
        Len(q) = Len(Target) + 1 /\ IsWithin(Target, q) /\ pre[q].kind = "file" }

ReportedFile(line) == ResolvePath(working_dir_, line.path)

C12_GrepDirectory ==
    GrepsDirectory =>
        LET total == MatchTotal(ImmediateFiles, call.content) IN
        /\ Len(Reported) = Min(MAX_GREP_RESULTS, total)
        /\ result.lines_returned = Len(Reported)
        /\ total > MAX_GREP_RESULTS => result.truncated
        /\ \A k \in 1..Len(Reported) :
              LET line == Reported[k]
                  lines == ReadFileLines(pre, ReportedFile(line)) IN
              /\ ReportedFile(line) \in ImmediateFiles
              /\ line.nums[1] \in 1..Len(lines)
              /\ line.text = lines[line.nums[1]]
              /\ regex_search(line.text, call.content)
        /\ \A j, k \in 1..Len(Reported) :
              (j # k) => (Reported[j].path # Reported[k].path
                             \/ Reported[j].nums # Reported[k].nums)

\* More than 20 matching lines in two files of the root, and more in a file
\* of a subdirectory: 20 are reported, from both files of the root.
C12_Witness ==
    /\ GrepsDirectory /\ Target = WorkRoot
    /\ MatchTotal(ImmediateFiles, call.content) > MAX_GREP_RESULTS
    /\ MatchTotal({ <<nW, nP, nS, nG>> }, call.content) > 0
    /\ result.truncated /\ Len(Reported) = MAX_GREP_RESULTS
    /\ \E j, k \in 1..Len(Reported) : Reported[j].path # Reported[k].path

(***************************************************************************)
(* C13 as stated: FileInfo returns success = true for every path argument. *)
(***************************************************************************)
C13_AsStated ==
    Called("FileInfo") => result.success

(***************************************************************************)
(* C13 amended: for every path argument that resolves to the working root  *)
(* or below it, FileInfo returns success = true, its first line being      *)
(* "exists: false" when nothing exists at the path; the only text in its   *)
(* output besides fixed words and numbers is the path argument itself, so  *)
(* no file content; the filesystem is left as it was.                      *)
(***************************************************************************)
C13_InfoSucceedsInRoot ==
    (Called("FileInfo") /\ InRoot) =>
        /\ ~threw /\ result.success /\ result.error = NoError
        /\ fs = pre
        /\ result.output[1] =
              OutLine(IF exists(pre, Target) THEN "exists: true"
                      ELSE "exists: false", <<>>, <<>>)
        /\ ~exists(pre, Target) => Len(result.output) = 2
        /\ \A k \in 1..Len(result.output) :
              result.output[k].text =
                  IF k = 2 THEN PathText(call.path) ELSE <<>>

C13_Witness ==
    /\ Called("FileInfo") /\ InRoot /\ ~exists(pre, Target)
    /\ result.success

C13_WitnessFile ==
    /\ Called("FileInfo") /\ InRoot /\ WasFile /\ pre[Target].bytes # <<>>
    /\ result.success

(***************************************************************************)
(* C15: Execute returns finished = true exactly when the verb of the       *)
(* command (the text before its first space, leading whitespace aside) is  *)
(* FINISH in any letter case; FINISH always succeeds; no other verb, and   *)
(* no operation called directly, sets finished.                            *)
(***************************************************************************)
VerbOf(command) ==
    LET start == FirstNotOf(command, Whitespace, 1)
        cmd == SubSeq(command, start, Len(command))
        space == FirstOf(cmd, { " " }, 1)
    IN ToUpperText(SubSeq(cmd, 1, space - 1))

C15_FinishedOnlyByFinish ==
    /\ Called("Execute") =>
          /\ result.finished <=> (VerbOf(call.content) = FINISH)
          /\ VerbOf(call.content) = FINISH =>
                (~threw /\ result.success /\ fs = pre)
    /\ (call # NoCall /\ ~Called("Execute")) => ~result.finished

C15_Witness ==
    /\ Called("Execute") /\ result.finished /\ result.success
    /\ VerbOf(call.content) = FINISH
    /\ SubSeq(call.content, 1, 6) # FINISH

C15_WitnessOther ==
    /\ Called("Execute") /\ result.success /\ ~result.finished
    /\ VerbOf(call.content) = READ_LINES

(***************************************************************************)
(* Vocabulary of the controller's properties.                              *)
(***************************************************************************)
\* An operation of the controller has returned and no other began since.
Idle == pc = "idle"

\* The operation that last began dispatched a command, and it finished the
\* task.
FinishStep == dispatches > 0 /\ ~threw /\ result.finished /\ Idle

\* The characters of the response after its first "FINISH " in any letter
\* case, none when there is no such word.
FinishArgument(response) ==
    LET word == FINISH \o << " " >>
        upper == [i \in 1..Len(response) |-> ToUpper(response[i])]
        at == { i \in 1..(Len(response) - 6) : SubSeq(upper, i, i + 6) = word }
    IN IF at = {} THEN <<>>
       ELSE LET pos == CHOOSE i \in at : \A j \in at : i <= j
            IN SubSeq(response, pos + 7, Len(response))

\* Spaces, tabs and carriage returns.
Blank == { " ", "\t", "\r" }

\* The text without the blanks at its end.
RECURSIVE WithoutBlankEnd(_)
WithoutBlankEnd(text) ==
    IF text # <<>> /\ text[Len(text)] \in Blank
    THEN WithoutBlankEnd(SubSeq(text, 1, Len(text) - 1))
    ELSE text

\* Run returned the summary and passed it to the finish notice.
SummaryHandedOver ==
    /\ returned = Ret("string", FALSE, "", final_summary_)
    /\ notices # <<>>
    /\ notices[Len(notices)] =
          Notice("finish", "", <<>>, final_summary_, ToolResult)

(***************************************************************************)
(* C14 as stated: when a step executes FINISH, the controller is Finished  *)
(* and the final summary, which Run returns and hands to the finish        *)
(* notice, is exactly what the model produced after "FINISH ".             *)
(***************************************************************************)
C14_AsStated ==
    FinishStep =>
        /\ state_ = "Finished"
        /\ final_summary_ = FinishArgument(model_output)
        /\ returned.kind = "string" => SummaryHandedOver

(***************************************************************************)
(* C14: when a step executes FINISH, the controller is Finished and the    *)
(* final summary, which Run returns and hands to the finish notice, is     *)
(* what the model produced after "FINISH " less the spaces, tabs and       *)
(* carriage returns that end the response; a newline, and whatever stands  *)
(* before it, is kept.                                                     *)
(***************************************************************************)
C14_SummaryIsArgumentLessBlankEnd ==
    FinishStep =>
        /\ state_ = "Finished"
        /\ final_summary_ = WithoutBlankEnd(FinishArgument(model_output))
        /\ final_summary_ = OutputText(result)
        /\ returned.kind = "string" => SummaryHandedOver

\* Run ends on a FINISH whose argument lost the blanks at its end.
C14_Witness ==
    /\ FinishStep /\ returned.kind = "string" /\ SummaryHandedOver
    /\ final_summary_ # <<>>
    /\ final_summary_ # FinishArgument(model_output)

\* Run ends on a FINISH whose argument is kept whole, newline included.
C14_WitnessVerbatim ==
    /\ FinishStep /\ returned.kind = "string"
    /\ final_summary_ = FinishArgument(model_output)
    /\ final_summary_[Len(final_summary_)] = NL

\* The places of a marker in a response.
PlacesOf(text, mark) ==
    { i \in 1..(Len(text) - Len(mark) + 1) :
        SubSeq(text, i, i + Len(mark) - 1) = mark }

HasMark(text, mark) == PlacesOf(text, mark) # {}

FirstPlace(text, mark) ==
    CHOOSE i \in PlacesOf(text, mark) : \A j \in PlacesOf(text, mark) : i <= j

OnlyWhitespace(text) ==
    \A i \in 1..Len(text) : text[i] \in { " ", "\t", NL, "\r" }

\* The response has both markers, the first command marker after the first
\* reasoning marker.
WellOrdered(text) ==
    /\ HasMark(text, THOUGHT_MARK) /\ HasMark(text, CMD_MARK)
    /\ FirstPlace(text, THOUGHT_MARK) < FirstPlace(text, CMD_MARK)

\* What stands between the two markers, and what stands after the second.
ReasoningText(text) ==
    SubSeq(text, FirstPlace(text, THOUGHT_MARK) + Len(THOUGHT_MARK),
           FirstPlace(text, CMD_MARK) - 1)

CommandText(text) ==
    SubSeq(text, FirstPlace(text, CMD_MARK) + Len(CMD_MARK), Len(text))

\* A step that waited for the inference gets its response, with no
\* interruption pending, and runs to its end.
ResponseTaken ==
    /\ pc \in { "Run:infer", "Step:infer" } /\ pc' # pc
    /\ ~interrupt_flag

\* The step ended in Error having told the raw response through the error
\* notice, with no command dispatched and no step recorded.
RejectedRaw ==
    /\ state_' = "Error"
    /\ dispatches' = dispatches
    /\ UNCHANGED <<fs, call, result, history_>>
    /\ notices' # <<>>
    /\ notices'[Len(notices')].kind = "error"
    /\ notices'[Len(notices')].text = model_output'

(***************************************************************************)
(* C16: a response with the reasoning marker THOUGHT: and no command       *)
(* marker CMD: takes the controller to Error in that step, the tool        *)
(* dispatcher not invoked and no step appended to the history.             *)
(***************************************************************************)
C16_NoCommandMarkerIsError ==
    [][(/\ ResponseTaken
        /\ HasMark(model_output', THOUGHT_MARK)
        /\ ~HasMark(model_output', CMD_MARK))
       => RejectedRaw]_vars

C16_Witness ==
    /\ Idle /\ infers > 0 /\ dispatches = 0
    /\ state_ = "Error"
    /\ HasMark(model_output, THOUGHT_MARK) /\ ~HasMark(model_output, CMD_MARK)
    /\ notices[Len(notices)].kind = "error"
    /\ notices[Len(notices)].text = model_output

(***************************************************************************)
(* C17 as stated: a step ends in Error, the raw response told verbatim     *)
(* through the error notice and no command dispatched, whenever the        *)
(* response lacks a marker, or its first CMD: does not come after its      *)
(* first THOUGHT:, or the reasoning or the command extracted from it is    *)
(* nothing but whitespace.                                                 *)
(***************************************************************************)
Malformed(text) ==
    \/ ~WellOrdered(text)
    \/ OnlyWhitespace(ReasoningText(text))
    \/ OnlyWhitespace(CommandText(text))

C17_MalformedIsError ==
    [][(ResponseTaken /\ Malformed(model_output')) => RejectedRaw]_vars

(***************************************************************************)
(* C18: Step called while the controller is Finished, Error or             *)
(* Interrupted returns false and does nothing else: no inference, no       *)
(* tool, no notice, and state, step counter, history and final summary     *)
(* are as they were.                                                       *)
(***************************************************************************)
C18_TerminalStepIsNoOp ==
    [][(StepCall /\ state_ \in { "Finished", "Error", "Interrupted" })
       => /\ returned' = Ret("bool", FALSE, "", <<>>)
          /\ pc' = "idle" /\ infers' = 0 /\ dispatches' = 0
          /\ notices' = <<>>
          /\ UNCHANGED <<state_, step_count_, history_, final_summary_,
                         current_task_, toolVars>>]_vars

\* Step has returned false from an interrupted controller, leaving it as
\* it was.
C18_Witness ==
    /\ Idle /\ state_ = "Interrupted"
    /\ returned = Ret("bool", FALSE, "", <<>>)
    /\ notices = <<>> /\ infers = 0 /\ dispatches = 0
    /\ entry = Snapshot
    /\ history_ # <<>>

(***************************************************************************)
(* C19 as stated: when the interrupt flag is set before a step begins, be  *)
(* it begun by the loop of Run or by a call of Step, the step does not     *)
(* invoke the inference and the controller ends in Interrupted.            *)
(***************************************************************************)
StepBegins ==
    \/ RunIterate
    \/ StepCall /\ state_ \notin { "Finished", "Error", "Interrupted" }

C19_InterruptedBeforeStep ==
    [][(interrupt_flag /\ StepBegins)
       => /\ pc' \notin { "Run:infer", "Step:infer" }
          /\ infers' = IF pc = "idle" THEN 0 ELSE infers
          /\ state_' = "Interrupted"]_vars

(***************************************************************************)
(* C20 as stated: Finished, Error and Interrupted are terminal: from one   *)
(* of them no operation but Reset, called directly or through StartTask,   *)
(* brings the controller back to Ready or to another inference or tool     *)
(* action; a further Run or Step does not resume the task.                 *)
(***************************************************************************)
C20_TerminalStatesStay ==
    [][(/\ state_ \in { "Finished", "Error", "Interrupted" }
        /\ ~(ResetCall \/ StartTaskCall))
       => /\ state_' \in { "Finished", "Error", "Interrupted" }
          /\ pc' = "idle"
          /\ infers' \in { 0, infers } /\ dispatches' \in { 0, dispatches }
          /\ UNCHANGED <<fs, call>>]_vars

\* Run has returned a text, and no other operation began since.
RunReturned == Idle /\ returned.kind = "string"

\* Run is in its loop or in a step of it.
InRun == pc \in { "Run:loop", "Run:infer" }

\* The operation that last began told a parse failure.
ParseFailureTold ==
    \E k \in 1..Len(notices) :
        /\ notices[k].kind = "error"
        /\ notices[k].msg = "Failed to parse model output: "

\* The operation that last began found the task freshly started: Ready,
\* a task set, no step taken.
FreshTask ==
    /\ entry.state = "Ready" /\ entry.task # <<>>
    /\ entry.step_count = 0 /\ entry.history = <<>>

\* The run took M steps and ended in Error with the message of the limit M.
EndedAtLimit ==
    /\ state_ = "Error"
    /\ returned = Ret("string", FALSE, LimitReached, to_string(max_steps))
    /\ notices[Len(notices)] =
          Notice("error", LimitReached, <<max_steps>>, <<>>, ToolResult)
    /\ infers = max_steps /\ dispatches = max_steps
    /\ Len(history_) = Len(entry.history) + max_steps
    /\ step_count_ = max_steps

ObservedOf(res) ==
    IF res.success
    THEN [kind |-> "output", working_dir |-> <<>>, task |-> <<>>,
          output |-> res.output, error |-> NoError]
    ELSE [kind |-> "error", working_dir |-> <<>>, task |-> <<>>,
          output |-> <<>>, error |-> res.error]

\* The description of working root and task.
Synthesized ==
    [kind |-> "initial", working_dir |-> working_dir_, task |-> current_task_,
     output |-> <<>>, error |-> NoError]

(***************************************************************************)
(* C22: in the history of a task the observation of the first step is the  *)
(* description of working root and task, and the observation of every      *)
(* later step k is the result of step k-1 (its output if it succeeded,     *)
(* "ERROR: " and its error otherwise), not the result of step k.           *)
(***************************************************************************)
C22_ObservationsDelayed ==
    \A k \in 1..Len(history_) :
        /\ k = 1 => history_[k].observation = Synthesized
        /\ k > 1 =>
             /\ history_[k].observation = ObservedOf(history_[k - 1].result)
             /\ ObservedOf(history_[k].result)
                   # ObservedOf(history_[k - 1].result) =>
                   history_[k].observation # ObservedOf(history_[k].result)

\* A failed step followed by a successful one, which observed the failure.
C22_Witness ==
    /\ Len(history_) >= 2
    /\ ~history_[1].result.success /\ history_[2].result.success
    /\ history_[2].observation.kind = "error"
    /\ history_[2].observation.error = history_[1].result.error

(***************************************************************************)
(* C23: Reset, in whatever state the controller is, leaves it Ready with   *)
(* an empty history, step counter 0, no task and no final summary, and     *)
(* the model loaded exactly if it was loaded before.                       *)
(***************************************************************************)
C23_ResetClears ==
    [][ResetCall
       => /\ state_' = "Ready"
          /\ history_' = <<>> /\ step_count_' = 0
          /\ current_task_' = <<>> /\ final_summary_' = <<>>
          /\ is_loaded' = is_loaded]_vars

\* Reset has returned on a finished task with the model loaded.
C23_Witness ==
    /\ Idle /\ returned = Ret("void", FALSE, "Reset", <<>>)
    /\ entry.state = "Finished" /\ entry.history # <<>>
    /\ entry.final_summary # <<>> /\ entry.step_count > 0
    /\ state_ = "Ready" /\ history_ = <<>> /\ final_summary_ = <<>>
    /\ is_loaded

\* Reset has returned on a controller in Error, Interrupted or Executing.
C23_WitnessOtherStates ==
    /\ Idle /\ returned = Ret("void", FALSE, "Reset", <<>>)
    /\ entry.state \in { "Error", "Interrupted", "Executing" }
    /\ state_ = "Ready" /\ ~is_loaded

\* The controller reads the interrupt flag and finds it set: at the head
\* of the loop of Run, or when the inference of a step has returned.
ObservesInterrupt ==
    /\ interrupt_flag
    /\ \/ pc = "Run:loop" /\ pc' # pc
       \/ pc \in { "Run:infer", "Step:infer" } /\ pc' # pc

(***************************************************************************)
(* C24: whenever the controller observes the interrupt flag, before a      *)
(* step or when the inference has returned, it ends in Interrupted, not    *)
(* in Error or Finished, makes neither the error nor the finish callback,  *)
(* and what the run reports (state and return value) is neither that of a  *)
(* finished run nor that of a run ended by an error.                       *)
(***************************************************************************)
C24_InterruptionIsDistinct ==
    [][ObservesInterrupt
       => /\ state_' = "Interrupted"
          /\ pc' = "idle"
          /\ dispatches' = dispatches /\ history_' = history_
          /\ final_summary_' = final_summary_
          /\ \A k \in 1..Len(notices') :
                notices'[k].kind \notin { "error", "finish" }
          /\ returned' \in
                { Ret("string", FALSE, "Task interrupted.", <<>>),
                  Ret("string", FALSE, "Task ended with state: ",
                      << "Interrupted" >>),
                  Ret("bool", FALSE, "", <<>>) }]_vars

\* Run has ended by an interruption observed after the inference of its
\* second step.
C24_Witness ==
    /\ RunReturned /\ state_ = "Interrupted" /\ interrupt_flag
    /\ returned.msg = "Task ended with state: "
    /\ infers = 2 /\ dispatches = 1

\* Run has ended by an interruption observed before a step.
C24_WitnessBeforeStep ==
    /\ RunReturned /\ state_ = "Interrupted"
    /\ returned.msg = "Task interrupted."
    /\ infers = 1 /\ dispatches = 1

\* A step hands its command to Execute, which returns a failure.
ToolFails ==
    /\ pc \in { "Run:infer", "Step:infer" } /\ pc' # pc
    /\ dispatches' = dispatches + 1
    /\ ~threw' /\ ~result'.success

\* The messages of the failures the tool set reports.
FailureMessages ==
    { "Unknown command: X. Available: READ_LINES, GREP, LIST, FILE_INFO, WRITE, INSERT, DELETE_LINES, CREATE, FINISH",
      "Invalid line range format. Use: READ_LINES <path> <start>-<end>",
      "Path outside working directory.",
      "Too many lines requested (N). Maximum is M. Narrow your request.",
      "File not found: ",
      "Failed to create file." }

(***************************************************************************)
(* C25: whenever a dispatched command returns success = false, the         *)
(* controller records the step in the history and is Ready again, so a     *)
(* run goes on to its next turn and a direct Step returns true; the        *)
(* failure of a tool never takes the controller to Error.                  *)
(***************************************************************************)
C25_ToolFailureRecoverable ==
    [][ToolFails
       => /\ state_' = "Ready"
          /\ Len(history_') = Len(history_) + 1
          /\ SubSeq(history_', 1, Len(history_)) = history_
          /\ history_'[Len(history_')].result = result'
          /\ ~history_'[Len(history_')].result.success
          /\ \A k \in 1..Len(notices') : notices'[k].kind # "error"
          /\ pc = "Run:infer" => (pc' = "Run:loop" /\ returned' = NoReturn)
          /\ pc = "Step:infer" => returned' = Ret("bool", TRUE, "", <<>>)]_vars

\* A run has taken two steps whose commands failed in different ways, and
\* is at the head of its loop, Ready.
C25_Witness ==
    /\ pc = "Run:loop" /\ state_ = "Ready" /\ dispatches = 2
    /\ Len(history_) = 2
    /\ ~history_[1].result.success /\ ~history_[2].result.success
    /\ history_[1].result.error.msg # history_[2].result.error.msg
    /\ { history_[k].result.error.msg : k \in 1..2 } \subseteq FailureMessages

\* Each of the failures has been recorded as a step.
C25_WitnessSandbox ==
    /\ history_ # <<>> /\ state_ = "Ready"
    /\ history_[1].result.error.msg = "Path outside working directory."

\* The arguments of a command: what follows the first space after its verb.
ArgumentsOf(command) ==
    LET start == FirstNotOf(command, Whitespace, 1)
        cmd == SubSeq(command, start, Len(command))
        space == FirstOf(cmd, { " " }, 1)
    IN SubSeq(cmd, space + 1, Len(cmd))

\* The second word of the arguments: the range, or the line number.
SecondArgument(command) ==
    LET args == ArgumentsOf(command)
    IN ExtractQuotedOrWord(args, ExtractQuotedOrWord(args, 1).pos).word

\* Execute was called with a range, or a line number, that does not parse.
MalformedRange ==
    /\ Called("Execute")
    /\ VerbOf(call.content) \in { READ_LINES, WRITE, DELETE_LINES }
    /\ ~ParseLineRange(SecondArgument(call.content)).ok

MalformedNumber ==
    /\ Called("Execute")
    /\ VerbOf(call.content) = INSERT
    /\ ~stoi(SecondArgument(call.content)).ok

\* The error texts of Execute that spell out the syntax of a verb; no
\* text of Execute spells out that of INSERT.
SyntaxEchoes(verb) ==
    IF verb = READ_LINES
    THEN { "Invalid line range format. Use: READ_LINES <path> <start>-<end>" }
    ELSE IF verb = WRITE
    THEN { "Invalid format. Use: WRITE <path> <start>-<end>\\n<content>\\nEND_WRITE" }
    ELSE IF verb = DELETE_LINES
    THEN { "Invalid format. Use: DELETE_LINES <path> <start>-<end>" }
    ELSE {}

(***************************************************************************)
(* C26 as stated: every Execute that fails by a malformed range            *)
(* (READ_LINES, WRITE, DELETE_LINES) or a malformed line number (INSERT)   *)
(* returns an error text that spells out the expected syntax of that       *)
(* command, and changes no file.                                           *)
(***************************************************************************)
C26_MalformedEchoesSyntax ==
    (MalformedRange \/ MalformedNumber) =>
        /\ ~threw /\ ~result.success
        /\ result.error.msg \in SyntaxEchoes(VerbOf(call.content))
        /\ fs = pre

(***************************************************************************)
(* C27: every ToolResult that Execute returns has one meaningful side: a   *)
(* success has an empty error text; a failure has a non-empty error text,  *)
(* an empty output, lines_returned 0, and neither truncated nor finished.  *)
(***************************************************************************)
C27_OneSide ==
    (Called("Execute") /\ ~threw) =>
        /\ result.success => result.error.msg = ""
        /\ ~result.success =>
              /\ result.error.msg # ""
              /\ result.output = <<>>
              /\ result.lines_returned = 0
              /\ ~result.truncated /\ ~result.finished

\* Execute has returned a failure of an operation, not of the dispatch.
C27_Witness ==
    /\ Called("Execute") /\ ~threw /\ ~result.success
    /\ result.error.msg = "Path outside working directory."
    /\ result.output = <<>>

\* Execute has returned a truncated success.
C27_WitnessSuccess ==
    /\ Called("Execute") /\ ~threw /\ result.success
    /\ result.truncated /\ result.output # <<>> /\ result.error.msg = ""

(***************************************************************************)
(* C28: between resets the history only grows at its end: every action of  *)
(* Step or Run leaves it unchanged or appends exactly one step to it, the  *)
(* steps recorded are never changed, removed or reordered, and only Reset  *)
(* or StartTask empties it.                                                *)
(***************************************************************************)
C28_HistoryAppendOnly ==
    [][\/ history_' = history_
       \/ /\ pc \in { "Run:infer", "Step:infer" }
          /\ Len(history_') = Len(history_) + 1
          /\ SubSeq(history_', 1, Len(history_)) = history_
       \/ /\ ResetCall \/ StartTaskCall
          /\ history_' = <<>>]_vars

\* A Step has appended a second step to a history of one.
C28_Witness ==
    /\ Idle /\ returned.kind = "bool" /\ dispatches = 1
    /\ entry.history # <<>>
    /\ Len(history_) = Len(entry.history) + 1
    /\ SubSeq(history_, 1, Len(entry.history)) = entry.history
    /\ history_[2] # history_[1]

\* The names of a directory of n entries whose every m-th is a directory,
\* as a listing shows them.
ShownAs(k, m) ==
    IF k % m = 0 THEN to_string(k) \o << "/" >> ELSE to_string(k)

\* a comes before b in lexicographic order.
LexBefore(a, b) ==
    \/ Len(a) < Len(b) /\ SubSeq(b, 1, Len(a)) = a
    \/ \E i \in 1..Min(Len(a), Len(b)) :
          /\ SubSeq(a, 1, i - 1) = SubSeq(b, 1, i - 1)
          /\ CharCode(a[i]) < CharCode(b[i])

(***************************************************************************)
(* C29: ListDir on a directory of n entries shows min(n, 100) of them, in  *)
(* lexicographic order and with "/" after the name of a directory, sets    *)
(* lines_returned to min(n, 100), and is truncated, with the line          *)
(* "[... n-100 more entries]" at its end, exactly when n > 100; for n = 0  *)
(* it shows "[Empty directory]".                                           *)
(***************************************************************************)
C29_Listing ==
    Called("Listing") =>
        LET n == call.a
            names == { ShownAs(k, call.b) : k \in 1..n }
            shown == IF n < MAX_LIST_ENTRIES THEN n ELSE MAX_LIST_ENTRIES
            texts == { result.output[k].text : k \in 1..shown }
        IN /\ ~threw /\ result.success
           /\ result.lines_returned = shown
           /\ result.truncated <=> n > MAX_LIST_ENTRIES
           /\ Len(result.output) =
                 shown + (IF n > MAX_LIST_ENTRIES THEN 1 ELSE 0)
                       + (IF n = 0 THEN 1 ELSE 0)
           /\ \A k \in 1..shown :
                 /\ result.output[k].tag = "entry"
                 /\ result.output[k].text \in names
                 /\ k < shown =>
                       LexBefore(result.output[k].text,
                                 result.output[k + 1].text)
           /\ \A u \in names \ texts :
                 LexBefore(result.output[shown].text, u)
           /\ n > MAX_LIST_ENTRIES =>
                 result.output[shown + 1] =
                    OutLine("[... N more entries]", <<n - MAX_LIST_ENTRIES>>,
                            <<>>)
           /\ n = 0 =>
                 result.output = << OutLine("[Empty directory]", <<>>, <<>>) >>

\* A directory of 102 entries has been listed.
C29_Witness ==
    /\ Called("Listing") /\ call.a = MAX_LIST_ENTRIES + 2
    /\ result.truncated /\ result.lines_returned = MAX_LIST_ENTRIES
    /\ result.output[Len(result.output)].nums = << 2 >>
    /\ \E k \in 1..MAX_LIST_ENTRIES : result.output[k].text = << "1", "0", "/" >>

\* Directories of exactly 100 entries and of none have been listed.
C29_WitnessFull ==
    /\ Called("Listing") /\ call.a = MAX_LIST_ENTRIES
    /\ ~result.truncated /\ Len(result.output) = MAX_LIST_ENTRIES

C29_WitnessEmpty ==
    /\ Called("Listing") /\ call.a = 0
    /\ result.output[1].tag = "[Empty directory]"

\* The operation that last began told an error.
ErrorTold == \E k \in 1..Len(notices) : notices[k].kind = "error"

(***************************************************************************)
(* C30: completion takes priority over the step budget.  A Run whose step  *)
(* number max_steps executes FINISH ends in Finished with the summary of   *)
(* that FINISH, returned and handed to the finish notice, and tells no     *)
(* error; a Run returns the message of the limit only when max_steps       *)
(* steps of the task have been counted, and never after a step of its own  *)
(* that executed FINISH.                                                   *)
(***************************************************************************)
C30_FinishBeforeBudget ==
    /\ (RunReturned /\ FinishStep /\ step_count_ = max_steps) =>
          /\ state_ = "Finished"
          /\ SummaryHandedOver
          /\ final_summary_ = history_[Len(history_)].result.output[1].text
          /\ ~ErrorTold
          /\ returned.msg # LimitReached
    /\ (RunReturned /\ returned.msg = LimitReached) =>
          /\ step_count_ = max_steps
          /\ ~FinishStep

\* A run on a fresh task finished on the last step of its budget.
C30_Witness ==
    /\ RunReturned /\ FreshTask /\ FinishStep
    /\ step_count_ = max_steps /\ dispatches = max_steps
    /\ state_ = "Finished" /\ final_summary_ # <<>>

\* The inference of the step under way has returned and the flag is set.
FlagSetAtReturn == pc = "Run:check" /\ interrupt_flag

\* The response the model gave asks for the file h to be created.
AsksToCreate ==
    /\ HasMark(model_output, CMD_MARK)
    /\ VerbOf(CommandText(model_output)) = CREATE

(***************************************************************************)
(* C31: when the interrupt flag is set as the inference of a step has      *)
(* returned, the controller begins no tool action for that step: the       *)
(* response is not dispatched, no file is modified, no step is appended to *)
(* the history, and the state becomes Interrupted.                         *)
(***************************************************************************)
C31_NoActionOnceInterrupted ==
    [][FlagSetAtReturn =>
          /\ state_' = "Interrupted"
          /\ dispatches' = dispatches
          /\ call' = call /\ result' = result
          /\ fs' = fs
          /\ history_' = history_
          /\ pc' = "idle"]_vars

\* A response that asked for a file was dropped: the run is over, the step
\* was counted, and the file does not exist.
C31_Witness ==
    /\ Idle /\ state_ = "Interrupted" /\ interrupt_flag
    /\ infers > 0 /\ dispatches = 0
    /\ AsksToCreate
    /\ ~exists(fs, <<nW, nP, nH>>)
    /\ step_count_ = Len(history_) + 1

\* Another thread set the flag in the course of the Run that last began,
\* and it is still set.
FlagLeftSet == interrupt_flag /\ at_flag.set

\* The Run that last began is over: it returned or an exception left it.
RunOver == Idle /\ returned.kind \in { "string", "exception" }

\* The controller is about to read the flag: at the top of the loop of Run
\* or after the inference.
AtCheckpoint == pc \in { "Run:loop", "Run:check" }

\* Since the flag was set the Run has handed at most one command to Execute.
OneFurtherCommand == FlagLeftSet => dispatches <= at_flag.dispatches + 1

\* The checkpoint that finds the flag set ends the Run, and no inference
\* is started by it.
CheckpointStops ==
    (FlagLeftSet /\ AtCheckpoint) => (pc' = "idle" /\ infers' = infers)

\* A Run in which the flag was set returned, with the controller in a
\* terminal state.
ReturnedTerminal ==
    (FlagLeftSet /\ RunOver) =>
        (returned.kind = "string" /\ IsTerminal(state_))

(***************************************************************************)
(* C32: with the interrupt flag set by another thread at any point of a    *)
(* Run and left set, the controller dispatches at most one further tool    *)
(* command after the flag was set, starts no inference after the next      *)
(* checkpoint, and the Run returns with the controller in a terminal       *)
(* state.                                                                  *)
(***************************************************************************)
C32_InterruptedRunEnds ==
    /\ [](OneFurtherCommand /\ ReturnedTerminal)
    /\ [][CheckpointStops]_vars

\* The Run that last began found a task set and the controller not in Error.
RunnableAtEntry == entry.state # "Error" /\ entry.task # <<>>

\* A Run starts no more than max_steps inferences.
BoundedInferences == pc # "idle" => infers <= max_steps

\* A Run that is over returned, and one that found a task and no Error
\* left the controller in Finished, Error or Interrupted.
ReturnsTerminal ==
    RunOver =>
        /\ returned.kind = "string"
        /\ RunnableAtEntry => state_ \in { "Finished", "Error", "Interrupted" }

(***************************************************************************)
(* C33: Run terminates.  With a task set and the controller not in Error,  *)
(* every inference returning, Run returns after at most max_steps          *)
(* inferences whatever the model answers, and on return the controller is  *)
(* in Finished, Error or Interrupted, never in Ready, Thinking or          *)
(* Executing.                                                              *)
(***************************************************************************)
C33_RunTerminates ==
    /\ [](BoundedInferences /\ ReturnsTerminal)
    /\ (pc # "idle") ~> RunOver

\* The call returned a ToolResult that is no success.
ReturnedFailure == call # NoCall /\ ~threw /\ ~result.success

(***************************************************************************)
(* C34: a call of Execute that returns success = false leaves the          *)
(* filesystem as it was: no file content is changed and no file or         *)
(* directory is created or removed, whatever the verb and the cause of the *)
(* failure.                                                                *)
(***************************************************************************)
C34_FailureLeavesFilesystem ==
    (Called("Execute") /\ ReturnedFailure) => fs = pre

\* The step calls the inference.
InferenceStarts ==
    /\ pc' \in { "Run:infer", "Step:infer" }
    /\ pc \notin { "Run:infer", "Step:infer" }

(***************************************************************************)
(* C35: the inference is called only while a model is loaded.  After an    *)
(* Init that failed to load the model, no StartTask, Run or Step calls the *)
(* inference until an Init has succeeded.                                  *)
(***************************************************************************)
C35_InferenceOnlyWhenLoaded == [][InferenceStarts => is_loaded]_vars

\* The files a search of the target reads: the regular files right in a
\* directory, or the file itself.
SearchedFiles ==
    IF pre[Target].kind = "dir" THEN ImmediateFiles ELSE { Target }

\* The matching lines there are in the files searched.
MatchesFound == MatchTotal(SearchedFiles, call.content)

\* The entries there are in the directory listed.
EntriesFound ==
    Cardinality({ q \in Universe :
        Len(q) = Len(Target) + 1 /\ IsWithin(Target, q)
            /\ pre[q].kind # "none" })

(***************************************************************************)
(* C36: truncated is set only when output was capped.  Grep sets it        *)
(* exactly when a matching line was left out of the output (more than 20   *)
(* matching lines), ListDir exactly when an entry was left out (more than  *)
(* 100 entries); both leave it false when all that was found is reported.  *)
(***************************************************************************)
C36_TruncatedIffCapped ==
    /\ (Called("Grep") /\ ~threw /\ result.success) =>
          /\ result.truncated <=> Len(Reported) < MatchesFound
          /\ result.truncated <=> MatchesFound > MAX_GREP_RESULTS
    /\ (Called("ListDir") /\ ~threw /\ result.success) =>
          /\ result.truncated <=> result.lines_returned < EntriesFound
          /\ result.truncated <=> EntriesFound > MAX_LIST_ENTRIES

\* The step is a call of StartTask.
TaskStarts == pc = "idle" /\ returned'.msg = "StartTask"

\* The directory that call of StartTask was given, as its notice tells it.
GivenDirectory == notices'[1].text

\* The text names a directory that exists.
NamesDirectory(text) ==
    \E d \in Universe : PathString(d) = text /\ fs[d].kind = "dir"

\* The path the command handed to Execute names, resolved.
NamedPath ==
    ResolvePath(working_dir_,
        PathOf(ExtractQuotedOrWord(ArgumentsOf(call.content), 1).word))

\* Only StartTask changes the working root.
RootFrame == (working_dir_' # working_dir_) => TaskStarts

\* StartTask in a path that is no existing directory leaves the root, and
\* in a directory makes that the root.
RootKept ==
    TaskStarts =>
        IF NamesDirectory(GivenDirectory)
        THEN PathString(working_dir_') = GivenDirectory
        ELSE working_dir_' = working_dir_

\* A command of a step that succeeds names a path in the root or below it.
ConfinedToRoot ==
    (/\ Called("Execute") /\ dispatches > 0
     /\ ~threw /\ result.success /\ ~result.finished)
       => IsWithin(working_dir_, NamedPath)

(***************************************************************************)
(* C37: the working root is changed only by the set-root operation.  No    *)
(* command and no step of the controller changes it, and StartTask given   *)
(* a path that is no existing directory leaves the root set before in      *)
(* force, so that the commands of the new task are confined to that root.  *)
(***************************************************************************)
C37_RootOnlySetExplicitly ==
    /\ [][RootFrame /\ RootKept]_vars
    /\ []ConfinedToRoot

(***************************************************************************)
(* The dispatcher over WRITE and INSERT commands whose content blocks put  *)
(* the sentinel at different places.                                       *)
(***************************************************************************)
\* Text after the sentinel, the sentinel in the middle of a line, two
\* newlines before it, an empty block, the sentinel twice, the sentinel of
\* the other verb, text on the header line, no sentinel, a header over two
\* lines, and a sentinel in lower case.
BlockCommands ==
    { << "W", "R", "I", "T", "E", " ", "f", " ", "1", "-", "1", NL, "x", NL, "E",
         "N", "D", "_", "W", "R", "I", "T", "E", NL, "z" >>,
      << "W", "R", "I", "T", "E", " ", "f", " ", "1", "-", "1", NL, "x", " ", "E",
         "N", "D", "_", "W", "R", "I", "T", "E", " ", "y" >>,
      << "W", "R", "I", "T", "E", " ", "f", " ", "1", "-", "1", NL, "x", NL, NL,
         "E", "N", "D", "_", "W", "R", "I", "T", "E" >>,
      << "W", "R", "I", "T", "E", " ", "f", " ", "1", "-", "1", NL, "E", "N", "D",
         "_", "W", "R", "I", "T", "E" >>,
      << "W", "R", "I", "T", "E", " ", "f", " ", "1", "-", "1", NL, "x", NL, "E",
         "N", "D", "_", "W", "R", "I", "T", "E", NL, "y", NL, "E", "N", "D", "_",
         "W", "R", "I", "T", "E" >>,
      << "W", "R", "I", "T", "E", " ", "f", " ", "2", "-", "2", NL, "x", NL, "E",
         "N", "D", "_", "I", "N", "S", "E", "R", "T", NL, "y", NL, "E", "N", "D",
         "_", "W", "R", "I", "T", "E" >>,
      << "w", "r", "i", "t", "e", " ", "h", " ", "1", "-", "1", " ", "j", "u", "n",
         "k", NL, "x", NL, "E", "N", "D", "_", "W", "R", "I", "T", "E" >>,
      << "W", "R", "I", "T", "E", " ", "f", " ", "1", "-", "1", NL, "x", NL, "y",
         NL >>,
      << "W", "R", "I", "T", "E", " ", "f", NL, "1", "-", "1", NL, "x", NL, "E",
         "N", "D", "_", "W", "R", "I", "T", "E" >>,
      << "I", "N", "S", "E", "R", "T", " ", "f", " ", "0", NL, "y", NL, "E", "N",
         "D", "_", "I", "N", "S", "E", "R", "T", NL, "z" >>,
      << "I", "N", "S", "E", "R", "T", " ", "f", " ", "1", NL, "y", " ", "E", "N",
         "D", "_", "I", "N", "S", "E", "R", "T" >>,
      << "I", "N", "S", "E", "R", "T", " ", "f", " ", "0", NL, "E", "N", "D", "_",
         "W", "R", "I", "T", "E", NL, "E", "N", "D", "_", "I", "N", "S", "E", "R",
         "T" >>,
      << "I", "N", "S", "E", "R", "T", " ", "f", " ", "1", NL, NL, NL, "E", "N",
         "D", "_", "I", "N", "S", "E", "R", "T" >>,
      << "I", "N", "S", "E", "R", "T", " ", "f", " ", "0", NL, "y", NL, "e", "n",
         "d", "_", "i", "n", "s", "e", "r", "t", NL >> }

ExecuteBlockCall ==
    \E command \in BlockCommands, order \in IterationOrders :
        Invoke(Call("Execute", EmptyPath, 0, 0, command),
               Execute(fs, working_dir_, command, order))

NextBlocks ==
    \/ TakeResult
    \/ ExecuteBlockCall

SpecBlocks == InitTools /\ [][NextBlocks]_vars

\* The header of a WRITE or INSERT command: its path and its range or line
\* number, and the text of the command after them.
HeaderPath(command) ==
    PathOf(ExtractQuotedOrWord(ArgumentsOf(command), 1).word)

AfterHeader(command) ==
    LET args == ArgumentsOf(command)
        second == ExtractQuotedOrWord(args, ExtractQuotedOrWord(args, 1).pos)
    IN SubSeq(args, second.pos, Len(args))

SentinelOf(command) ==
    IF VerbOf(command) = WRITE THEN END_WRITE ELSE END_INSERT

\* The text after the first newline that follows the header.
RemainingText(command) ==
    LET rest == AfterHeader(command)
    IN SubSeq(rest, FirstPlace(rest, <<NL>>) + 1, Len(rest))

\* The remaining text up to its first sentinel, less one trailing newline.
StatedBlock(command) ==
    LET remaining == RemainingText(command)
        upto == SubSeq(remaining, 1,
                       FirstPlace(remaining, SentinelOf(command)) - 1)
    IN IF upto # <<>> /\ upto[Len(upto)] = NL
       THEN SubSeq(upto, 1, Len(upto) - 1)
       ELSE upto

\* The text of the command from its first sentinel on.
FromSentinel(command) ==
    LET remaining == RemainingText(command)
    IN SubSeq(remaining, FirstPlace(remaining, SentinelOf(command)),
              Len(remaining))

\* Execute was called with a WRITE or an INSERT whose header parses and
\* whose remaining text holds the sentinel.
BlockGiven ==
    /\ Called("Execute")
    /\ VerbOf(call.content) \in { WRITE, INSERT }
    /\ VerbOf(call.content) = WRITE =>
          ParseLineRange(SecondArgument(call.content)).ok
    /\ VerbOf(call.content) = INSERT => stoi(SecondArgument(call.content)).ok
    /\ HasMark(AfterHeader(call.content), <<NL>>)
    /\ HasMark(RemainingText(call.content), SentinelOf(call.content))

\* What the editor does with a block on the files as they were.
EditorGiven(block) ==
    IF VerbOf(call.content) = WRITE
    THEN WriteLines(pre, working_dir_, HeaderPath(call.content),
                    ParseLineRange(SecondArgument(call.content)).first,
                    ParseLineRange(SecondArgument(call.content)).second,
                    block)
    ELSE InsertLines(pre, working_dir_, HeaderPath(call.content),
                     stoi(SecondArgument(call.content)).value, block)

\* The lines of the file the command names, before and after.
FileLinesOf(fsys) ==
    ReadFileLines(fsys, ResolvePath(working_dir_, HeaderPath(call.content)))

LineSet(lines) == { lines[k] : k \in 1..Len(lines) }

(***************************************************************************)
(* C38: for a WRITE or INSERT command, the content block handed to the     *)
(* editor is the text after the first newline following the header up to,  *)
(* and not including, the first END_WRITE / END_INSERT anywhere in the     *)
(* remaining text, less one trailing newline before the sentinel: Execute  *)
(* returns what WriteLines / InsertLines return for that block and leaves  *)
(* the files they leave, and every line of the file afterwards is a line   *)
(* it had before or a line of that block, so that nothing from the         *)
(* sentinel on is written.                                                 *)
(***************************************************************************)
C38_ContentBlock ==
    BlockGiven =>
        /\ ~threw
        /\ result = EditorGiven(StatedBlock(call.content)).res
        /\ fs = EditorGiven(StatedBlock(call.content)).fs
        /\ LineSet(FileLinesOf(fs)) \subseteq
               LineSet(FileLinesOf(pre))
                   \cup LineSet(GetLines(StatedBlock(call.content)))

\* A WRITE with text after the sentinel has replaced line 1 by the block.
C38_Witness ==
    /\ BlockGiven /\ result.success /\ fs # pre
    /\ VerbOf(call.content) = WRITE
    /\ FromSentinel(call.content) # SentinelOf(call.content)
    /\ StatedBlock(call.content) = <<"x">>
    /\ FileLinesOf(fs)[1] = <<"x">>
    /\ FileLinesOf(pre)[1] = <<"b">>

\* An INSERT whose sentinel stands in the middle of a line has put the text
\* before it, trailing space and all, after line 1.
C38_WitnessInline ==
    /\ BlockGiven /\ result.success
    /\ VerbOf(call.content) = INSERT
    /\ StatedBlock(call.content) = <<"y", " ">>
    /\ FileLinesOf(fs)[2] = <<"y", " ">>
    /\ Len(FileLinesOf(fs)) = Len(FileLinesOf(pre)) + 1

\* Two newlines before the sentinel: one is stripped, the other ends the
\* one line written.
C38_WitnessOneStripped ==
    /\ BlockGiven /\ result.success
    /\ VerbOf(call.content) = WRITE
    /\ StatedBlock(call.content) = <<"x", NL>>
    /\ Len(FileLinesOf(fs)) = Len(FileLinesOf(pre))

(***************************************************************************)
(* The prompt of a step over histories of recorded steps: results with a   *)
(* short output, an output of exactly PROMPT_OUTPUT_CHARS characters, one   *)
(* character more, and a failure.                                          *)
(***************************************************************************)
LongOutput(n) == [k \in 1..n |-> "a"]

OutputResult(output) ==
    [ToolResult EXCEPT !.success = TRUE, !.output = output]

\* What a step may have come to: thought, command and result.  The first
\* two differ in the thought alone.
StepSamples ==
    { << <<"t">>, << "L", "I", "S", "T", " ", "." >>, OutputResult(<<"o", "k">>) >>,
      << <<"u">>, << "L", "I", "S", "T", " ", "." >>, OutputResult(<<"o", "k">>) >>,
      << <<"t">>, << "L", "I", "S", "T", " ", "s" >>, OutputResult(LongOutput(PROMPT_OUTPUT_CHARS)) >>,
      << <<"t">>, << "L", "I", "S", "T", " ", "s" >>,
         OutputResult(LongOutput(PROMPT_OUTPUT_CHARS + 1)) >>,
      << <<"t">>, << "R", "E", "A", "D", "_", "L", "I", "N", "E", "S", " ", "h", " ", "1", "-", "1" >>,
         [ToolResult EXCEPT
             !.error = Error("File not found: ", <<>>, RelPath(<<nH>>))] >> }

\* A step is recorded at the end of Step (lines 199-214).
RecordStep ==
    /\ pc = "idle"
    /\ current_task_ # <<>>
    /\ Len(history_) < max_steps
    /\ \E s \in StepSamples :
        history_' = push_back(history_,
                              << AgentStep(s[1], s[2], s[3], Observation) >>)
    /\ returned' = Ret("bool", TRUE, "", <<>>)
    /\ UNCHANGED <<toolVars, state_, step_count_, current_task_,
                   final_summary_, interrupt_flag, pc, model_output, entry,
                   notices, infers, dispatches, is_loaded, at_flag>>

\* Step builds the prompt of its inference (line 148).
BuildPromptCall ==
    /\ pc = "idle"
    /\ returned' = Ret("prompt", FALSE, "",
                       BuildPrompt(current_task_, working_dir_, history_))
    /\ UNCHANGED <<toolVars, state_, step_count_, history_, current_task_,
                   final_summary_, interrupt_flag, pc, model_output, entry,
                   notices, infers, dispatches, is_loaded, at_flag>>

\* StartTask on a controller that has recorded no step yet.
StartTaskFirst == history_ = <<>> /\ StartTaskAnywhere

NextPrompt ==
    \/ StartTaskFirst
    \/ RecordStep
    \/ BuildPromptCall

SpecPrompt == InitAgent /\ [][NextPrompt]_vars

\* A prompt has been built of the controller as it is.
PromptBuilt == returned.kind = "prompt"

\* Histories of up to two steps.
OtherHistories ==
    LET steps == { AgentStep(s[1], s[2], s[3], o) :
                     s \in StepSamples,
                     o \in { [kind |-> "initial", working_dir |-> WorkRoot,
                              task |-> <<"t">>, output |-> <<>>,
                              error |-> NoError] } }
    IN { <<>> } \cup { <<a>> : a \in steps }
                \cup { <<a, b>> : a \in steps, b \in steps }

\* Two histories end in the same exchange: the same command with the same
\* result.
SameLastExchange(h, g) ==
    /\ h # <<>> /\ g # <<>>
    /\ h[Len(h)].command = g[Len(g)].command
    /\ h[Len(h)].result = g[Len(g)].result

\* The prompt of the first step: preamble, task, working root and the
\* opening question.
FirstStepPrompt ==
    << Words("GetSystemPrompt()"), Words("\n\n"),
       Words("TASK: "), Text(current_task_), Words("\n"),
       Words("DIR: "), Text(PathString(working_dir_)), Words("\n\n"),
       Words("Begin by exploring. What is your first action?\n\n"),
       Words("THOUGHT:") >>

PromptTexts == { returned.text[k].text : k \in 1..Len(returned.text) }

C39_WitnessFirst ==
    PromptBuilt /\ history_ = <<>> /\ current_task_ # <<>>

\* The output of the last result was longer than the prompt lets through.
C39_WitnessTruncated ==
    /\ PromptBuilt /\ history_ # <<>>
    /\ Len(history_[Len(history_)].result.output) = PROMPT_OUTPUT_CHARS + 1
    /\ \E k \in 1..Len(returned.text) :
          Len(returned.text[k].text) = PROMPT_OUTPUT_CHARS + Len(TruncatedMark)

====
